---- MODULE Spec2Model ----
(***************************************************************************)
(* Marauder: the agent loop (agent.py, run_agent), the tool registry and   *)
(* filesystem tools (tools.py) and the background output readers           *)
(* (tools.py, _read_output / _read_stderr).                                *)
(*                                                                         *)
(* Python strings that the code inspects character by character (paths,    *)
(* file contents) are sequences of one-character strings; a text built     *)
(* from a literal and data (an f-string) is the sequence of the literal,   *)
(* as one element, and the data.                                           *)
(***************************************************************************)
EXTENDS Integers, Sequences, FiniteSets, TLC

VARIABLES
    \* ---- filesystem (the operating system's state, seen through tools.py)
    files,        \* path -> content, for every regular file
    dirs,         \* set of directory paths
    io,           \* ghost: the filesystem syscalls of the last tool call
    fs_last,      \* result of the last direct filesystem tool call
    \* ---- run_agent (agent.py) and its caller's loop (cli.py)
    history,      \* the stored conversation history
    pc,           \* position of the main thread
    pending,      \* tool calls of the response being dispatched (msg.tool_calls)
    next_tc,      \* index in pending of the next call to dispatch
    final_content,\* run_agent's final_content (NoText = None)
    requests,     \* number of model requests sent in the session
    at_request,   \* ghost: the stored history when the last request was sent
    after_tools,  \* ghost: the last request followed a tool dispatch round
    turn_end,     \* how the last turn ended
    \* ---- one background process (tools.py, run_background)
    output_buf,   \* the process's output_buf list
    buf_lock,     \* holder of the process's buf_lock ("free" when released)
    rd_pc,        \* reader thread -> position
    rd_line,      \* reader thread -> the line readline() returned
    produced,     \* stream -> number of lines the process has written to it
    appended,     \* ghost: every line appended to output_buf, in order
    truncations,  \* ghost: number of truncations done
    bg_recent,    \* the lines the last check_background took from output_buf
    registry,     \* the PIDs tracked in _background_processes
    started_with, \* stream -> lines delivered before the first state (fixed)
    stream,       \* stream -> "open", or "closed" once every writer has closed it
    bg_lock,      \* holder of _bg_lock ("free" when released)
    main_pc,      \* the supervisor tool the main thread is in, and its position
    accesses,     \* ghost: the accesses to registry and buffer, with the locks held
    ops,          \* number of supervisor tool calls begun, step by step
    \* ---- _trim_history called on its own (agent.py)
    trimmed,      \* the argument and the result of the last _trim_history call
    serial,       \* number of messages appended to the history so far
    sent,         \* the messages of the last request built from the history
    \* ---- the supervisor of background processes (tools.py)
    procs,        \* pid -> the child process as the operating system has it
    background_processes, \* _background_processes: pid -> entry (DOMAIN = registry)
    signals,      \* ghost: pid -> the signals sent to it so far
    sup_last,     \* the last supervisor call and what it returned
    \* ---- the chat loop (cli.py, main)
    auto_compact, \* auto_compact
    compact_count, \* compact_count
    cumulative_tokens, \* cumulative_tokens
    compactions,  \* ghost: full compactions performed since the session began
    summarized,   \* ghost: how the last request of summarize_context ended
    \* ---- one turn of run_agent (agent.py): the response and the status ticker
    message,      \* msg = choice.message of the last response received
    view_mode,    \* the module's view_mode
    tickers       \* ticker_stop and the _ticker thread of the current turn, after
                  \* those of the earlier turns whose thread was started

fsVars == <<files, dirs, io, fs_last>>
agentVars == <<history, pc, pending, next_tc, final_content, requests,
               at_request, after_tools, turn_end>>
mainVars == <<bg_lock, main_pc, ops>>
bgVars == <<output_buf, buf_lock, rd_pc, rd_line, produced, appended,
            truncations, bg_recent, registry, started_with, stream, accesses, mainVars>>
trimVars == <<trimmed, serial, sent>>
supVars == <<procs, background_processes, signals, sup_last>>
cliVars == <<auto_compact, compact_count, cumulative_tokens, compactions, summarized>>
runVars == <<message, view_mode, tickers>>
vars == <<fsVars, agentVars, bgVars, trimVars, supVars, cliVars, runVars>>

(***************************************************************************)
(* Strings as sequences of characters                                      *)
(***************************************************************************)
StartsWith(s, p) == Len(p) <= Len(s) /\ SubSeq(s, 1, Len(p)) = p

Last(s) == s[Len(s)]
Range(s) == {s[i] : i \in 1..Len(s)}

\* s[-n:] of Python, n > 0
Tail_n(s, n) == IF Len(s) <= n THEN s ELSE SubSeq(s, Len(s) - n + 1, Len(s))

\* s.split("/"): the components between slashes, empty ones included
RECURSIVE SplitFrom(_, _, _)
SplitFrom(s, i, cur) ==
    IF i > Len(s) THEN <<cur>>
    ELSE IF s[i] = "/" THEN <<cur>> \o SplitFrom(s, i + 1, <<>>)
    ELSE SplitFrom(s, i + 1, Append(cur, s[i]))

Split(s) == SplitFrom(s, 1, <<>>)

\* "/".join(comps)
RECURSIVE JoinSlash(_)
JoinSlash(comps) ==
    IF comps = <<>> THEN <<>>
    ELSE IF Len(comps) = 1 THEN comps[1]
    ELSE comps[1] \o <<"/">> \o JoinSlash(Tail(comps))

DOT == <<".">>
DOTDOT == <<".", ".">>

\* posixpath.join(a, b)
PathJoin(a, b) ==
    IF StartsWith(b, <<"/">>) THEN b
    ELSE IF a = <<>> \/ Last(a) = "/" THEN a \o b
    ELSE a \o <<"/">> \o b

\* the loop of posixpath.normpath over the components
RECURSIVE NormComps(_, _, _)
NormComps(comps, acc, initial_slashes) ==
    IF comps = <<>> THEN acc
    ELSE LET comp == Head(comps) IN
         IF comp = <<>> \/ comp = DOT
         THEN NormComps(Tail(comps), acc, initial_slashes)
         ELSE IF comp # DOTDOT
                 \/ (initial_slashes = 0 /\ acc = <<>>)
                 \/ (acc # <<>> /\ Last(acc) = DOTDOT)
         THEN NormComps(Tail(comps), Append(acc, comp), initial_slashes)
         ELSE IF acc # <<>>
         THEN NormComps(Tail(comps), SubSeq(acc, 1, Len(acc) - 1), initial_slashes)
         ELSE NormComps(Tail(comps), acc, initial_slashes)

\* posixpath.normpath(path)
NormPath(path) ==
    IF path = <<>> THEN DOT
    ELSE LET initial_slashes ==
                 IF ~StartsWith(path, <<"/">>) THEN 0
                 ELSE IF StartsWith(path, <<"/", "/">>)
                         /\ ~StartsWith(path, <<"/", "/", "/">>) THEN 2
                 ELSE 1
             body == JoinSlash(NormComps(Split(path), <<>>, initial_slashes))
             full == IF initial_slashes = 2 THEN <<"/", "/">> \o body
                     ELSE IF initial_slashes = 1 THEN <<"/">> \o body
                     ELSE body
         IN IF full = <<>> THEN DOT ELSE full

\* index of the last "/" of p, 0 when there is none
RECURSIVE LastSlash(_, _)
LastSlash(p, i) == IF i = 0 THEN 0 ELSE IF p[i] = "/" THEN i ELSE LastSlash(p, i - 1)

\* p.rstrip("/")
RECURSIVE RStripSlash(_)
RStripSlash(p) ==
    IF p # <<>> /\ Last(p) = "/" THEN RStripSlash(SubSeq(p, 1, Len(p) - 1)) ELSE p

\* posixpath.dirname(p)
DirName(p) ==
    LET i == LastSlash(p, Len(p))
        head == SubSeq(p, 1, i)
    IN IF head # <<>> /\ RStripSlash(head) # <<>> THEN RStripSlash(head) ELSE head

\* posixpath.basename(p)
BaseName(p) == SubSeq(p, LastSlash(p, Len(p)) + 1, Len(p))

(***************************************************************************)
(* The session's working directory and the tool inputs                     *)
(***************************************************************************)
\* cli.py hands run_agent an absolute directory (os.getcwd() / abspath)
WORK_DIR == <<"/", "a", "/", "b">>

P_x == <<"x">>
P_y == <<"y">>
P_dot == <<".">>
P_sub_y == <<"s", "/", "y">>
P_sub_up_x == <<"s", "/", ".", ".", "/", "x">>
P_up == <<".", ".">>
P_up_up_e == <<".", ".", "/", ".", ".", "/", "e">>
P_abs_e == <<"/", "e">>
P_sibling == <<".", ".", "/", "b", "c", "/", "x">>
P_out_in == <<".", ".", "/", "b", "/", "x">>

\* path arguments a tool call may carry
Paths == {P_x, P_y, P_dot, P_sub_y, P_sub_up_x, P_up, P_up_up_e, P_abs_e,
          P_sibling, P_out_in}

\* file contents and edit strings
T_empty == <<>>
T_a == <<"a">>
T_aba == <<"a", "b", "a">>
T_b == <<"b">>
T_hi == <<"h", "i">>
T_aa == <<"a", "a">>
T_aaa == <<"a", "a", "a">>
T_crlf == <<"h", "\r", "\n">>

Contents == {T_hi}
OldStrs == {T_a, T_b}
NewStrs == {T_hi}

\* further arguments for calls on the path x: a content in which old_str
\* overlaps itself, and a content with a carriage return
ContentsOfX == {T_aaa, T_crlf}
OldStrsOfX == {T_aa}

(***************************************************************************)
(* The filesystem under the tools: regular files, directories, and the     *)
(* log of syscalls.  A filesystem state is [files, dirs, io].              *)
(***************************************************************************)
D_root == <<"/">>
D_a == <<"/", "a">>
D_bc == <<"/", "a", "/", "b", "c">>
D_git == WORK_DIR \o <<"/", ".", "g", "i", "t">>
F_x == WORK_DIR \o <<"/", "x">>
F_bc_x == D_bc \o <<"/", "x">>
F_git_c == D_git \o <<"/", "c">>

InitFiles == (F_x :> T_aba) @@ (F_bc_x :> T_b) @@ (F_git_c :> T_a)
InitDirs == {D_root, D_a, WORK_DIR, D_bc, D_git}

Fs(f, d, l) == [files |-> f, dirs |-> d, io |-> l]

\* one syscall on path p, logged
Sys(fs, op, p) == [fs EXCEPT !.io = Append(@, [op |-> op, path |-> p])]

IsFile(fs, p) == p \in DOMAIN fs.files
IsDir(fs, p) == p \in fs.dirs

\* p itself and every directory above it
SelfAndAncestors(p) ==
    {p} \cup {SubSeq(p, 1, i - 1) : i \in {j \in 2..Len(p) : p[j] = "/"}}
        \cup (IF StartsWith(p, <<"/">>) THEN {D_root} ELSE {})

\* what a tool hands back to execute_tool: a text, or an exception
Returned(text, fs) == [raised |-> FALSE, exc |-> "", text |-> text, fs |-> fs]
Raised(exc, fs) == [raised |-> TRUE, exc |-> exc, text |-> <<>>, fs |-> fs]

\* os.makedirs(d, exist_ok=True)
MakeDirs(fs, d) ==
    LET fs1 == Sys(fs, "makedirs", d) IN
    IF IsDir(fs, d) THEN [ok |-> TRUE, fs |-> fs1]
    ELSE IF \E q \in SelfAndAncestors(d) : IsFile(fs, q)
    THEN [ok |-> FALSE, fs |-> fs1]
    ELSE [ok |-> TRUE, fs |-> [fs1 EXCEPT !.dirs = @ \cup SelfAndAncestors(d)]]

\* a text file read with the default newline=None: "\r\n" and "\r" arrive as "\n"
RECURSIVE UniversalNewlines(_)
UniversalNewlines(data) ==
    IF data = <<>> THEN <<>>
    ELSE IF Head(data) = "\r"
    THEN <<"\n">> \o UniversalNewlines(IF Len(data) >= 2 /\ data[2] = "\n"
                                       THEN SubSeq(data, 3, Len(data))
                                       ELSE Tail(data))
    ELSE <<Head(data)>> \o UniversalNewlines(Tail(data))

\* os.linesep of the platform (POSIX)
LINESEP == <<"\n">>

\* a text file written with the default newline=None: "\n" leaves as os.linesep
RECURSIVE WrittenNewlines(_)
WrittenNewlines(content) ==
    IF content = <<>> THEN <<>>
    ELSE (IF Head(content) = "\n" THEN LINESEP ELSE <<Head(content)>>)
             \o WrittenNewlines(Tail(content))

\* open(full, "w") ... f.write(content)
OpenWrite(fs, full, content) ==
    LET fs1 == Sys(fs, "open_w", full) IN
    IF IsDir(fs, full) \/ ~IsDir(fs, DirName(full))
    THEN [ok |-> FALSE, fs |-> fs1]
    ELSE [ok |-> TRUE,
          fs |-> [fs1 EXCEPT !.files =
                     [q \in DOMAIN @ \cup {full} |-> IF q = full THEN WrittenNewlines(content) ELSE @[q]]]]

\* the prefix test of _resolve: full.startswith(os.path.normpath(work_dir))
ResolveAdmits(full, work_dir) == StartsWith(full, NormPath(work_dir))

\* _resolve(work_dir, path)
Resolve(work_dir, path) ==
    LET full == NormPath(PathJoin(work_dir, path)) IN
    IF ~ResolveAdmits(full, work_dir)
    THEN [raised |-> TRUE, full |-> full]
    ELSE [raised |-> FALSE, full |-> full]

\* read_file(work_dir, path)
ReadFile(fs, work_dir, path) ==
    LET r == Resolve(work_dir, path) IN
    IF r.raised THEN Raised("ValueError", fs)
    ELSE LET fs1 == Sys(fs, "isfile", r.full) IN
         IF ~IsFile(fs, r.full)
         THEN Returned(<<"Error: file not found: ">> \o path, fs1)
         ELSE Returned(UniversalNewlines(fs.files[r.full]), Sys(fs1, "open_r", r.full))

\* write_file(work_dir, path, content)
WriteFile(fs, work_dir, path, content) ==
    LET r == Resolve(work_dir, path) IN
    IF r.raised THEN Raised("ValueError", fs)
    ELSE LET d == IF DirName(r.full) = <<>> THEN DOT ELSE DirName(r.full)
             m == MakeDirs(fs, d)
         IN IF ~m.ok THEN Raised("OSError", m.fs)
            ELSE LET w == OpenWrite(m.fs, r.full, content) IN
                 IF ~w.ok THEN Raised("OSError", w.fs)
                 ELSE Returned(<<"Wrote ", ToString(Len(content)), " chars to ">> \o path, w.fs)

\* old in text
RECURSIVE FindFrom(_, _, _)
FindFrom(text, old, i) ==
    IF i + Len(old) - 1 > Len(text) THEN 0
    ELSE IF SubSeq(text, i, i + Len(old) - 1) = old THEN i
    ELSE FindFrom(text, old, i + 1)

Contains(text, old) == FindFrom(text, old, 1) # 0

\* text.count(old): occurrences that do not overlap, scanned from the left
RECURSIVE CountFrom(_, _, _)
CountFrom(text, old, i) ==
    IF old = <<>> THEN Len(text) + 1
    ELSE LET k == FindFrom(text, old, i) IN
         IF k = 0 THEN 0 ELSE 1 + CountFrom(text, old, k + Len(old))

Count(text, old) == CountFrom(text, old, 1)

\* text.replace(old, new, 1)
ReplaceFirst(text, old, new) ==
    LET k == FindFrom(text, old, 1) IN
    IF k = 0 THEN text
    ELSE SubSeq(text, 1, k - 1) \o new \o SubSeq(text, k + Len(old), Len(text))

\* edit_file(work_dir, path, old_str, new_str)
EditFile(fs, work_dir, path, old_str, new_str) ==
    LET r == Resolve(work_dir, path) IN
    IF r.raised THEN Raised("ValueError", fs)
    ELSE LET fs1 == Sys(fs, "isfile", r.full) IN
         IF ~IsFile(fs, r.full)
         THEN Returned(<<"Error: file not found: ">> \o path, fs1)
         ELSE LET fs2 == Sys(fs1, "open_r", r.full)
                  text == UniversalNewlines(fs.files[r.full])
                  count == Count(text, old_str)
              IN IF ~Contains(text, old_str)
                 THEN Returned(<<"Error: old_str not found in ">> \o path, fs2)
                 ELSE IF count > 1
                 THEN Returned(<<"Error: old_str found ", ToString(count), " times in ">> \o path
                                   \o <<", must be unique">>, fs2)
                 ELSE LET w == OpenWrite(fs2, r.full, ReplaceFirst(text, old_str, new_str)) IN
                      IF ~w.ok THEN Raised("OSError", w.fs)
                      ELSE Returned(<<"Edited ">> \o path, w.fs)

\* the order of characters (code points) that sorted() uses on entry names
CHAR_ORDER == <<".", "/", "a", "b", "c", "e", "g", "h", "i", "s", "t", "x", "y">>

Rank(c) == CHOOSE i \in 1..Len(CHAR_ORDER) : CHAR_ORDER[i] = c

RECURSIVE StrLess(_, _)
StrLess(a, b) ==
    IF a = <<>> THEN b # <<>>
    ELSE IF b = <<>> THEN FALSE
    ELSE IF Head(a) = Head(b) THEN StrLess(Tail(a), Tail(b))
    ELSE Rank(Head(a)) < Rank(Head(b))

\* sorted(names)
RECURSIVE Sorted(_)
Sorted(names) ==
    IF names = {} THEN <<>>
    ELSE LET m == CHOOSE n \in names : \A o \in names \ {n} : StrLess(n, o)
         IN <<m>> \o Sorted(names \ {m})

\* the entries _walk skips; only .git occurs in the modelled tree
SKIP == {<<".", "g", "i", "t">>}

\* os.listdir(d)
ListDir(fs, d) ==
    {BaseName(p) : p \in {q \in fs.dirs \cup DOMAIN fs.files : q # d /\ DirName(q) = d}}

\* _walk(dir_path, prefix, depth, lines): the lines it appends and its syscalls
\* (every directory of the model is readable, so listdir does not raise)
RECURSIVE Walk(_, _, _, _)
RECURSIVE WalkEntries(_, _, _, _, _)
Walk(fs, dir_path, prefix, depth) ==
    IF depth < 0 THEN [lines |-> <<>>, sys |-> <<>>]
    ELSE LET entries == Sorted(ListDir(fs, dir_path) \ SKIP)
             rest == WalkEntries(fs, dir_path, prefix, depth, entries)
         IN [lines |-> rest.lines,
             sys |-> <<[op |-> "listdir", path |-> dir_path]>> \o rest.sys]

WalkEntries(fs, dir_path, prefix, depth, entries) ==
    IF entries = <<>> THEN [lines |-> <<>>, sys |-> <<>>]
    ELSE LET entry == Head(entries)
             fp == PathJoin(dir_path, entry)
             more == WalkEntries(fs, dir_path, prefix, depth, Tail(entries))
         IN IF IsDir(fs, fp)
            THEN LET sub == Walk(fs, fp, prefix \o <<" ", " ">>, depth - 1) IN
                 [lines |-> <<prefix \o entry \o <<"/">>>> \o sub.lines \o more.lines,
                  sys |-> <<[op |-> "isdir", path |-> fp]>> \o sub.sys \o more.sys]
            ELSE [lines |-> <<prefix \o entry>> \o more.lines,
                  sys |-> <<[op |-> "isdir", path |-> fp]>> \o more.sys]

\* "\n".join(lines)
RECURSIVE JoinNl(_)
JoinNl(lines) ==
    IF lines = <<>> THEN <<>>
    ELSE IF Len(lines) = 1 THEN lines[1]
    ELSE lines[1] \o <<"\n">> \o JoinNl(Tail(lines))

\* list_files(work_dir, path, depth)
ListFiles(fs, work_dir, path, depth) ==
    LET r == Resolve(work_dir, path) IN
    IF r.raised THEN Raised("ValueError", fs)
    ELSE LET fs1 == Sys(fs, "isdir", r.full) IN
         IF ~IsDir(fs, r.full)
         THEN Returned(<<"Error: not a directory: ">> \o path, fs1)
         ELSE LET w == Walk(fs, r.full, <<>>, depth)
                  fs2 == [fs1 EXCEPT !.io = @ \o w.sys]
              IN IF w.lines # <<>> THEN Returned(JoinNl(w.lines), fs2)
                 ELSE Returned(<<"(empty directory)">>, fs2)

\* the depth arguments of list_files (2 is the schema's default)
Depths == {0, 2}

\* a path lies in the working directory: it is the directory or below it
Inside(full, work_dir) ==
    LET root == NormPath(work_dir) IN
    full = root \/ StartsWith(full, IF Last(root) = "/" THEN root ELSE root \o <<"/">>)

\* the path argument resolves outside the working directory
Escapes(path) == ~Inside(NormPath(PathJoin(WORK_DIR, path)), WORK_DIR)

(***************************************************************************)
(* SpecFs: the filesystem tools called directly, on every path argument    *)
(***************************************************************************)
FsCalls ==
    [tool : {"read_file"}, path : Paths]
    \cup [tool : {"write_file"}, path : Paths, content : Contents]
    \cup [tool : {"edit_file"}, path : Paths, old_str : OldStrs, new_str : NewStrs]
    \cup [tool : {"write_file"}, path : {P_x}, content : ContentsOfX]
    \cup [tool : {"edit_file"}, path : {P_x}, old_str : OldStrsOfX, new_str : NewStrs]
    \cup [tool : {"list_files"}, path : Paths, depth : Depths]

\* the function a filesystem tool name stands for, applied to a call's arguments
FsTool(fs, c) ==
    IF c.tool = "read_file" THEN ReadFile(fs, WORK_DIR, c.path)
    ELSE IF c.tool = "write_file" THEN WriteFile(fs, WORK_DIR, c.path, c.content)
    ELSE IF c.tool = "edit_file" THEN EditFile(fs, WORK_DIR, c.path, c.old_str, c.new_str)
    ELSE ListFiles(fs, WORK_DIR, c.path, c.depth)

(***************************************************************************)
(* Tool registry (tools.py, TOOL_MAP and execute_tool)                     *)
(***************************************************************************)
\* a call's arguments string: text that json.loads rejects, or a JSON object
BadJson == [json |-> "invalid"]
Obj(o) == [json |-> "object", obj |-> o]
EmptyObj == [k \in {} |-> 0]

\* json.loads(arguments)
JsonLoads(arguments) ==
    IF arguments.json = "invalid" THEN [ok |-> FALSE, value |-> EmptyObj]
    ELSE [ok |-> TRUE, value |-> arguments.obj]

Has(args, key) == key \in DOMAIN args

\* the names TOOL_MAP maps
TOOL_NAMES == {"read_file", "write_file", "edit_file", "list_files", "run_command",
               "run_background", "check_background", "stop_background",
               "list_background"}

\* what the shell does with a command is the environment's choice
CmdOutcomes == {"exit0", "timeout"}

\* run_command(work_dir, command): every exception is caught and turned into text
RunCommand(fs, command, outcome) ==
    IF outcome = "timeout"
    THEN Returned(<<"Error: command timed out (60s limit).">>, fs)
    ELSE Returned(<<"(no output)">>, fs)

\* check_background(pid), as far as its text goes
CheckBackground(fs, reg, buf, pid) ==
    IF pid \notin reg
    THEN Returned(<<"Error: no tracked process with PID ", ToString(pid)>>, fs)
    ELSE Returned(<<"PID: ", ToString(pid), "--- Recent output ---">> \o Tail_n(buf, 50), fs)

\* TOOL_MAP[name](work_dir, args) for the tools dispatched in this model
Handler(name, fs, reg, buf, args, outcome) ==
    CASE name = "read_file" ->
           IF ~Has(args, "path") THEN Raised("KeyError", fs)
           ELSE ReadFile(fs, WORK_DIR, args.path)
      [] name = "write_file" ->
           IF ~Has(args, "path") \/ ~Has(args, "content") THEN Raised("KeyError", fs)
           ELSE WriteFile(fs, WORK_DIR, args.path, args.content)
      [] name = "edit_file" ->
           IF ~Has(args, "path") \/ ~Has(args, "old_str") \/ ~Has(args, "new_str")
           THEN Raised("KeyError", fs)
           ELSE EditFile(fs, WORK_DIR, args.path, args.old_str, args.new_str)
      [] name = "list_files" ->
           ListFiles(fs, WORK_DIR,
                     IF Has(args, "path") THEN args.path ELSE DOT,
                     IF Has(args, "depth") THEN args.depth ELSE 2)
      [] name = "run_command" ->
           IF ~Has(args, "command") THEN Raised("KeyError", fs)
           ELSE RunCommand(fs, args.command, outcome)
      [] name = "check_background" ->
           IF ~Has(args, "pid") THEN Raised("KeyError", fs)
           ELSE CheckBackground(fs, reg, buf, args.pid)

\* execute_tool(work_dir, name, arguments)
ExecuteTool(fs, reg, buf, name, arguments, outcome) ==
    LET parsed == JsonLoads(arguments) IN
    IF ~parsed.ok THEN Raised("JSONDecodeError", fs)
    ELSE IF name \notin TOOL_NAMES
    THEN Returned(<<"Error: unknown tool '", name, "'">>, fs)
    ELSE Handler(name, fs, reg, buf, parsed.value, outcome)

(***************************************************************************)
(* The agent loop (agent.py, run_agent) under the chat loop of cli.py      *)
(***************************************************************************)
MAX_HISTORY_MESSAGES == 30

TRIM_MARKER ==
    [role |-> "system", content |-> "[Earlier conversation trimmed for context efficiency]"]

\* a trim that keeps the oldest messages after the first instead of the newest
TrimHistoryOldest(h) ==
    IF Len(h) <= MAX_HISTORY_MESSAGES THEN h
    ELSE SubSeq(h, 1, 1) \o <<TRIM_MARKER>> \o SubSeq(h, 2, MAX_HISTORY_MESSAGES)

\* a trim that does not keep the first message
TrimHistoryNoFirst(h) ==
    IF Len(h) <= MAX_HISTORY_MESSAGES THEN h
    ELSE <<TRIM_MARKER>> \o Tail_n(h, MAX_HISTORY_MESSAGES - 1)

\* _trim_history(history)
TrimHistory(h) ==
    IF Len(h) <= MAX_HISTORY_MESSAGES THEN h
    ELSE SubSeq(h, 1, 1) \o <<TRIM_MARKER>> \o Tail_n(h, MAX_HISTORY_MESSAGES - 1)

\* bounds of the model: tool calls in one response, messages appended to the
\* history by the turns of one session
MaxCalls == 2
MaxHist == 6

NoText == "<None>"
USER_MESSAGE == "u"

\* what the model may ask for in a tool call
AgentCalls ==
    { [name |-> "read_file", arguments |-> Obj([path |-> P_x])],
      [name |-> "read_file", arguments |-> Obj([path |-> P_y])],
      [name |-> "read_file", arguments |-> Obj([path |-> P_up_up_e])],
      [name |-> "read_file", arguments |-> Obj(EmptyObj)],
      [name |-> "read_file", arguments |-> BadJson],
      [name |-> "write_file", arguments |-> Obj([path |-> P_y, content |-> T_hi])],
      [name |-> "edit_file",
       arguments |-> Obj([path |-> P_x, old_str |-> T_a, new_str |-> T_hi])],
      [name |-> "run_command", arguments |-> Obj([command |-> "c"])],
      [name |-> "check_background", arguments |-> Obj([pid |-> 9])],
      [name |-> "no_such_tool", arguments |-> Obj(EmptyObj)],
      [name |-> "no_such_tool", arguments |-> BadJson] }

\* the ids of one response are distinct; a later response may use them again
IdOffsets == {0, 1}

\* the responses that carry tool calls: 1..MaxCalls calls, ids distinct
ToolResponses ==
    UNION { { [i \in 1..n |-> [id |-> off + i, name |-> cs[i].name,
                                arguments |-> cs[i].arguments]]
              : cs \in [1..n -> AgentCalls], off \in IdOffsets }
            : n \in 1..MaxCalls }

\* the history message run_agent builds from a response
AssistantMsg(text, calls) ==
    IF calls = <<>> THEN [role |-> "assistant", content |-> text]
    ELSE [role |-> "assistant", content |-> text, tool_calls |-> calls]

\* a slip: every tool message carries the id 1 instead of its call's id
ToolMsgFixedId(id, content) == [role |-> "tool", tool_call_id |-> 1, content |-> content]

ToolMsg(id, content) == [role |-> "tool", tool_call_id |-> id, content |-> content]

\* a slip: the calls are taken last to first
DispatchReversed(calls, k) == calls[Len(calls) + 1 - k]

\* the order in which the for loop of run_agent takes msg.tool_calls
DispatchOrder(calls, k) == calls[k]

\* index of the last user message of h (0 when there is none)
RECURSIVE LastUser(_, _)
LastUser(h, i) == IF i = 0 THEN 0 ELSE IF h[i].role = "user" THEN i ELSE LastUser(h, i - 1)

\* a slip: the failed turn's assistant and tool messages are rolled back
HistoryRolledBack(h) == SubSeq(h, 1, LastUser(h, Len(h)))

\* the except branch of the request: report and break, the history untouched
HistoryOnApiError(h) == h

(***************************************************************************)
(* The status ticker of a turn (agent.py, run_agent)                       *)
(***************************************************************************)

\* ticker_stop = threading.Event() and, in normal view, the thread started on
\* _ticker; `at` is the thread's position ("none": no thread was started)
Ticker(at) == [stop |-> FALSE, at |-> at, swallowed |-> FALSE]

\* run_agent before its try: a new Event, and in normal view a new thread;
\* the threads of earlier turns keep their own Event
TickersAtStart(ts, mode) ==
    IF mode = "normal" THEN Append(ts, Ticker("test")) ELSE <<Ticker("none")>>

\* finally: ticker_stop.set()
TickersAtExit(ts) == [ts EXCEPT ![Len(ts)].stop = TRUE]

(***************************************************************************)
(* The response message and _extract_content (agent.py)                    *)
(***************************************************************************)

\* before the first response of a session no msg is bound
NoMsg == [content |-> [py |-> "None"], reasoning_content |-> <<>>, tool_calls |-> <<>>]

WHITESPACE == {" ", "\n", "\t"}

\* str.strip()
Strip(text) ==
    LET inked == {i \in 1..Len(text) : text[i] \notin WHITESPACE}
    IN IF inked = {} THEN <<>>
       ELSE SubSeq(text, CHOOSE i \in inked : \A j \in inked : i <= j,
                         CHOOSE i \in inked : \A j \in inked : i >= j)

S_repr_type ==
    <<"{", "'", "t", "y", "p", "e", "'", ":", " ", "'">>
S_repr_data ==
    <<"'", ",", " ", "'", "d", "a", "t", "a", "'", ":", " ", "'">>
S_repr_end ==
    <<"'", "}">>

T_thinking == <<"t", "h", "i", "n", "k", "i", "n", "g">>
T_text == <<"t", "e", "x", "t">>
T_redacted_thinking == <<"r", "e", "d", "a", "c", "t", "e", "d", "_">> \o T_thinking

\* str(block) of a dict block {"type": ..., "data": ...}
StrOfBlock(block) ==
    S_repr_type \o block.type \o S_repr_data \o block.data \o S_repr_end

\* block.get(key, default)
BlockGet(block, key, default) == IF key \in DOMAIN block THEN block[key] ELSE default

\* what one content block adds to text
BlockText(block) ==
    CASE block.type = T_thinking -> <<>>
      [] block.type = T_text -> BlockGet(block, "text", <<>>)
      [] OTHER -> BlockGet(block, "text", StrOfBlock(block))

RECURSIVE ConcatAll(_)
\* the parts joined in order
ConcatAll(parts) ==
    IF parts = <<>> THEN <<>> ELSE Head(parts) \o ConcatAll(Tail(parts))

\* _extract_content: text. A content that is neither a string nor a list
\* (None) leaves text = ""
ExtractedText(m) ==
    CASE m.content.py = "str" -> Strip(m.content.value)
      [] m.content.py = "list" ->
            Strip(ConcatAll([k \in 1..Len(m.content.value) |->
                                     BlockText(m.content.value[k])]))
      [] OTHER -> ""

\* run_agent: the history message built from msg
StoredMsg(m) == AssistantMsg(ExtractedText(m), m.tool_calls)

\* a response whose content is a string that _extract_content returns as text
PlainMsg(text, calls) ==
    [content |-> [py |-> "str", value |-> text], reasoning_content |-> <<>>,
     tool_calls |-> calls]

\* cli.py, main: the user enters a message; run_agent appends it and trims
RunAgentStart ==
    /\ pc = "idle"
    /\ serial < MaxHist
    /\ serial' = serial + 1
    /\ history' = TrimHistory(Append(history, [role |-> "user", content |-> USER_MESSAGE]))
    /\ final_content' = NoText
    /\ turn_end' = "running"
    /\ after_tools' = FALSE
    /\ pc' = "request"
    /\ tickers' = TickersAtStart(tickers, view_mode)
    /\ UNCHANGED <<pending, next_tc, requests, at_request, trimmed, sent, fsVars, bgVars,
                   supVars, cliVars, message, view_mode>>

\* top of the while loop: client.chat.completions.create(...) is called
SendRequest ==
    /\ pc = "request"
    /\ at_request' = history
    /\ requests' = requests + 1
    /\ pc' = "await"
    /\ UNCHANGED <<history, pending, next_tc, final_content, after_tools, turn_end,
                   fsVars, bgVars, trimVars, supVars, cliVars, runVars>>

\* the request raises: except Exception ... break, then return history
ApiError ==
    /\ pc = "await"
    /\ history' = HistoryOnApiError(history)
    /\ turn_end' = "api_error"
    /\ pc' = "idle"
    /\ tickers' = TickersAtExit(tickers)
    /\ UNCHANGED <<pending, next_tc, final_content, requests, at_request, after_tools,
                   fsVars, bgVars, trimVars, supVars, cliVars, message, view_mode>>

\* a response without tool calls: it is stored and ends the turn
ResponseText ==
    /\ pc = "await"
    /\ serial < MaxHist
    /\ serial' = serial + 1
    /\ \E text \in {"", "done"} :
         /\ message' = PlainMsg(text, <<>>)
         /\ history' = Append(history, AssistantMsg(text, <<>>))
         /\ final_content' = text
    /\ turn_end' = "final"
    /\ pc' = "idle"
    /\ tickers' = TickersAtExit(tickers)
    /\ UNCHANGED <<pending, next_tc, requests, at_request, after_tools, trimmed, sent,
                   fsVars, bgVars, supVars, cliVars, view_mode>>

\* a response with tool calls: it is stored and the for loop starts
ResponseTools ==
    /\ pc = "await"
    /\ \E calls \in ToolResponses :
         /\ serial + 1 + Len(calls) < MaxHist
         /\ message' = PlainMsg("", calls)
         /\ history' = Append(history, AssistantMsg("", calls))
         /\ pending' = calls
    /\ serial' = serial + 1
    /\ next_tc' = 1
    /\ pc' = "dispatch"
    /\ UNCHANGED <<final_content, requests, at_request, after_tools, turn_end,
                   trimmed, sent, fsVars, bgVars, supVars, cliVars, view_mode, tickers>>

\* one pass of the for loop: execute_tool, then the tool message is appended
\* (the results of the model are shorter than the 3000 characters above which
\* run_agent cuts a result); an exception of execute_tool is caught neither in
\* run_agent, whose try has only a finally, nor in main
Dispatch ==
    /\ pc = "dispatch"
    /\ \E outcome \in CmdOutcomes, tc \in {DispatchOrder(pending, next_tc)} :
         \E r \in {ExecuteTool(Fs(files, dirs, <<>>), registry, output_buf,
                               tc.name, tc.arguments, outcome)} :
            /\ files' = r.fs.files
            /\ dirs' = r.fs.dirs
            /\ io' = r.fs.io
            /\ IF r.raised
               THEN /\ pc' = "crashed"
                    /\ turn_end' = r.exc
                    /\ tickers' = TickersAtExit(tickers)
                    /\ UNCHANGED <<history, serial, next_tc, after_tools>>
               ELSE /\ history' = Append(history, ToolMsg(tc.id, r.text))
                    /\ serial' = serial + 1
                    /\ next_tc' = next_tc + 1
                    /\ pc' = IF next_tc = Len(pending) THEN "request" ELSE "dispatch"
                    /\ after_tools' = (next_tc = Len(pending) \/ after_tools)
                    /\ UNCHANGED <<turn_end, tickers>>
    /\ UNCHANGED <<pending, final_content, requests, at_request, fs_last, trimmed, sent,
                   bgVars, supVars, cliVars, message, view_mode>>

\* a filesystem tool is called with any of the modelled arguments
FsToolCall ==
    /\ \E c \in FsCalls : \E r \in {FsTool(Fs(files, dirs, <<>>), c)} :
         /\ files' = r.fs.files
         /\ dirs' = r.fs.dirs
         /\ io' = r.fs.io
         /\ fs_last' = [tool |-> c.tool, path |-> c.path, raised |-> r.raised,
                        exc |-> r.exc, text |-> r.text, call |-> c]
    /\ UNCHANGED <<agentVars, bgVars, trimVars, supVars, cliVars, runVars>>

(***************************************************************************)
(* One background process and its two reader threads (tools.py)            *)
(***************************************************************************)
BUF_CAP == 500
BUF_KEEP == 300
RECENT_LINES == 50

\* bounds of the model: lines in the buffer at the start, and lines each
\* stream delivers after that
PreFill == 498
MaxLines == 3

\* the PID under which run_background registered the process
TRACKED == {7}
Readers == {"stdout", "stderr"}

\* the k-th line of stdout as appended, and the k-th of stderr with its
\* "[stderr] " tag (kept as the sign)
TaggedLine(t, k) == IF t = "stdout" THEN k ELSE 0 - k

\* a slip: the oldest lines are kept, output_buf[:300]
TruncatedHead(buf) == SubSeq(buf, 1, BUF_KEEP)

\* a slip: the first line is kept and the newest lines after it
TruncatedKeepsFirst(buf) == SubSeq(buf, 1, 1) \o Tail_n(buf, BUF_KEEP - 1)

\* output_buf[:] = output_buf[-300:]
Truncated(buf) == Tail_n(buf, BUF_KEEP)

\* the main thread is in no supervisor tool
MainIdle == [tool |-> "none", at |-> "idle"]

\* an access to the registry or to the buffer by a thread, with what the
\* thread holds at that moment
Access(thread, obj) ==
    [thread |-> thread, obj |-> obj, reg_held |-> bg_lock = thread,
     buf_held |-> buf_lock = thread]

\* the process closes the stream (at its exit, when no other process holds it)
StreamClose(t) ==
    /\ stream[t] = "open"
    /\ stream' = [stream EXCEPT ![t] = "closed"]
    /\ UNCHANGED <<output_buf, buf_lock, rd_pc, rd_line, produced, appended, truncations,
                   bg_recent, registry, started_with, accesses, mainVars, fsVars,
                   agentVars, trimVars, supVars, cliVars, runVars>>

\* readline() returns the next line of the reader's stream
ReadLine(t) ==
    /\ rd_pc[t] = "readline"
    /\ stream[t] = "open"
    /\ produced[t] < started_with[t] + MaxLines
    /\ produced' = [produced EXCEPT ![t] = @ + 1]
    /\ rd_line' = [rd_line EXCEPT ![t] = TaggedLine(t, produced[t] + 1)]
    /\ rd_pc' = [rd_pc EXCEPT ![t] = "append_wait"]
    /\ UNCHANGED <<output_buf, buf_lock, appended, truncations, bg_recent, registry,
                   started_with, stream, accesses, mainVars, fsVars, agentVars, trimVars,
                   supVars, cliVars, runVars>>

\* readline() returns "" (the stream is closed): iter() stops, the thread ends
ReaderEof(t) ==
    /\ rd_pc[t] = "readline"
    /\ stream[t] = "closed"
    /\ rd_pc' = [rd_pc EXCEPT ![t] = "done"]
    /\ UNCHANGED <<output_buf, buf_lock, rd_line, produced, appended, truncations,
                   bg_recent, registry, started_with, stream, accesses, mainVars, fsVars,
                   agentVars, trimVars, supVars, cliVars, runVars>>

\* readline() raises on the open stream (ValueError for bytes that do not
\* decode, OSError): except (ValueError, OSError): pass, the thread ends
ReaderRaises(t) ==
    /\ rd_pc[t] = "readline"
    /\ stream[t] = "open"
    /\ rd_pc' = [rd_pc EXCEPT ![t] = "done"]
    /\ UNCHANGED <<output_buf, buf_lock, rd_line, produced, appended, truncations,
                   bg_recent, registry, started_with, stream, accesses, mainVars, fsVars,
                   agentVars, trimVars, supVars, cliVars, runVars>>

\* with lock: (entering either block)
ReaderAcquire(t) ==
    /\ rd_pc[t] \in {"append_wait", "check_wait"}
    /\ buf_lock = "free"
    /\ buf_lock' = t
    /\ rd_pc' = [rd_pc EXCEPT ![t] = IF @ = "append_wait" THEN "append" ELSE "check"]
    /\ UNCHANGED <<output_buf, rd_line, produced, appended, truncations, bg_recent,
                   registry, started_with, stream, accesses, mainVars, fsVars, agentVars,
                   trimVars, supVars, cliVars, runVars>>

\* output_buf.append(line), and the lock is released
ReaderAppend(t) ==
    /\ rd_pc[t] = "append"
    /\ buf_lock = t
    /\ output_buf' = Append(output_buf, rd_line[t])
    /\ appended' = Append(appended, rd_line[t])
    /\ accesses' = accesses \cup {Access(t, "buffer")}
    /\ buf_lock' = "free"
    /\ rd_pc' = [rd_pc EXCEPT ![t] = "check_wait"]
    /\ UNCHANGED <<rd_line, produced, truncations, bg_recent, registry, started_with, stream,
                   mainVars, fsVars, agentVars, trimVars, supVars, cliVars, runVars>>

\* if len(output_buf) > 500: output_buf[:] = output_buf[-300:], and the lock
\* is released
ReaderCheck(t) ==
    /\ rd_pc[t] = "check"
    /\ buf_lock = t
    /\ IF Len(output_buf) > BUF_CAP
       THEN /\ output_buf' = Truncated(output_buf)
            /\ truncations' = truncations + 1
       ELSE UNCHANGED <<output_buf, truncations>>
    /\ accesses' = accesses \cup {Access(t, "buffer")}
    /\ buf_lock' = "free"
    /\ rd_pc' = [rd_pc EXCEPT ![t] = "readline"]
    /\ UNCHANGED <<rd_line, produced, appended, bg_recent, registry, started_with, stream,
                   mainVars, fsVars, agentVars, trimVars, supVars, cliVars, runVars>>

\* check_background(pid) on the tracked process: under the buffer's lock it
\* takes output_buf[-50:]
CheckBackgroundRead ==
    /\ registry # {}
    /\ buf_lock = "free"
    /\ bg_recent' = Tail_n(output_buf, RECENT_LINES)
    /\ UNCHANGED <<output_buf, buf_lock, rd_pc, rd_line, produced, appended, truncations,
                   registry, started_with, stream, accesses, mainVars, fsVars, agentVars,
                   trimVars, supVars, cliVars, runVars>>

(***************************************************************************)
(* _trim_history on histories of every length (agent.py)                   *)
(***************************************************************************)
\* bounds of the model: messages appended to one history, and messages the
\* history holds when a late turn starts
MaxSerial == 34
LongStart == 28

\* the k-th message appended to the history: user and assistant messages
\* alternate, each with a content of its own
SerialMsg(k) ==
    [role |-> IF k % 2 = 1 THEN "user" ELSE "assistant", content |-> ToString(k)]

\* history.append(...)
TrimAppend ==
    /\ serial < MaxSerial
    /\ serial' = serial + 1
    /\ history' = Append(history, SerialMsg(serial + 1))
    /\ UNCHANGED <<trimmed, sent, pc, pending, next_tc, final_content, requests, at_request,
                   after_tools, turn_end, fsVars, bgVars, supVars, cliVars, runVars>>

\* history = _trim_history(history)
TrimCall ==
    /\ \E out \in {TrimHistory(history)} :
         /\ trimmed' = [in |-> history, out |-> out]
         /\ history' = out
    /\ UNCHANGED <<serial, sent, pc, pending, next_tc, final_content, requests, at_request,
                   after_tools, turn_end, fsVars, bgVars, supVars, cliVars, runVars>>

(***************************************************************************)
(* _truncate_tool_results (agent.py): texts are sequences of characters    *)
(***************************************************************************)
MAX_TOOL_RESULT_CHARS == 800
MAX_OLD_ASSISTANT_CHARS == 300
MAX_TOOL_ARGS_CHARS == 200
\* recent_cutoff = total - 4
RECENT_KEPT == 4

\* c * n
Chars(n, c) == [i \in 1..n |-> c]

\* str(n) for n >= 0
RECURSIVE Digits(_)
Digits(n) ==
    IF n < 10 THEN <<ToString(n)>> ELSE Digits(n \div 10) \o <<ToString(n % 10)>>

\* s[:n]
Prefix(s, n) == IF Len(s) <= n THEN s ELSE SubSeq(s, 1, n)

\* s.split("\n")
SplitNl(s) ==
    LET nl == {i \in 1..Len(s) : s[i] = "\n"}
        at(k) == IF k = 0 THEN 0
                 ELSE IF k > Cardinality(nl) THEN Len(s) + 1
                 ELSE CHOOSE p \in nl : Cardinality({q \in nl : q <= p}) = k
    IN  [k \in 1..(Cardinality(nl) + 1) |-> SubSeq(s, at(k - 1) + 1, at(k) - 1)]

S_DOTS == <<".", ".", ".">>
S_TRUNCATED == <<".", ".", ".", "(", "t", "r", "u", "n", "c", "a", "t", "e", "d", ")">>
S_content == <<"c", "o", "n", "t", "e", "n", "t">>
S_old_str == <<"o", "l", "d", "_", "s", "t", "r">>
S_new_str == <<"n", "e", "w", "_", "s", "t", "r">>

\* f"... ({n} lines omitted) ..."
OmittedLine(n) == <<".", ".", ".", " ", "(">> \o Digits(n) \o <<" ", "l", "i", "n", "e", "s", " ", "o", "m", "i", "t", "t", "e", "d", ")", " ", ".", ".", ".">>

\* f"[{n} chars written]"
CharsWritten(n) == <<"[">> \o Digits(n) \o <<" ", "c", "h", "a", "r", "s", " ", "w", "r", "i", "t", "t", "e", "n", "]">>

\* the new content of an old tool message longer than MAX_TOOL_RESULT_CHARS
OldToolContent(content) ==
    LET lines == SplitNl(content) IN
    IF Len(lines) > 10
    THEN Prefix(JoinNl(SubSeq(lines, 1, 5) \o <<OmittedLine(Len(lines) - 10)>>
                       \o Tail_n(lines, 5)), MAX_TOOL_RESULT_CHARS)
    ELSE Prefix(content, MAX_TOOL_RESULT_CHARS) \o S_TRUNCATED

\* a JSON object is the sequence of its <<key, value>> pairs, all strings;
\* json.dumps(args)
RECURSIVE DumpPairs(_)
DumpPairs(o) ==
    IF o = <<>> THEN <<>>
    ELSE <<"\"">> \o o[1][1] \o <<"\"", ":", " ", "\"">> \o o[1][2] \o <<"\"">>
         \o (IF Len(o) = 1 THEN <<>> ELSE <<",", " ">> \o DumpPairs(Tail(o)))

Dumps(o) == <<"{">> \o DumpPairs(o) \o <<"}">>

\* args.get(key, "")
Get(o, key) ==
    IF \E i \in 1..Len(o) : o[i][1] = key
    THEN o[CHOOSE i \in 1..Len(o) : o[i][1] = key][2]
    ELSE <<>>

\* args[key] = value
SetKey(o, key, value) ==
    IF \E i \in 1..Len(o) : o[i][1] = key
    THEN [i \in 1..Len(o) |-> IF o[i][1] = key THEN <<key, value>> ELSE o[i]]
    ELSE Append(o, <<key, value>>)

\* the argument strings the model may have sent with a tool call: the objects
\* below as JSON text, and a text that is not JSON
A_read == <<<<<<"p", "a", "t", "h">>, <<"x">>>>>>
A_write == <<<<<<"p", "a", "t", "h">>, <<"y">>>>, <<S_content, Chars(201, "h")>>>>
A_write_no_content == <<<<<<"p", "a", "t", "h">>, Chars(201, "p")>>>>
A_edit == <<<<<<"p", "a", "t", "h">>, <<"x">>>>, <<S_old_str, Chars(100, "a")>>,
            <<S_new_str, Chars(100, "b")>>>>
A_command == <<<<<<"c", "o", "m", "m", "a", "n", "d">>, Chars(201, "c")>>>>
JsonObjects == {A_read, A_write, A_write_no_content, A_edit, A_command}
NOT_JSON == Chars(201, "{")

\* json.loads(args_str) of _truncate_tool_results: the object whose JSON text
\* args_str is, or an exception
JsonLoadsText(args_str) ==
    IF \E o \in JsonObjects : Dumps(o) = args_str
    THEN [ok |-> TRUE, value |-> CHOOSE o \in JsonObjects : Dumps(o) = args_str]
    ELSE [ok |-> FALSE, value |-> <<>>]

\* a slip: the arguments of an old tool call are sent as stored
ArgumentsKept(fn_name, args_str) == args_str

\* the arguments of a tool call of an old assistant message
CompressedArguments(fn_name, args_str) ==
    LET cut == Prefix(args_str, MAX_TOOL_ARGS_CHARS) \o S_DOTS
        p == JsonLoadsText(args_str) IN
    IF Len(args_str) <= MAX_TOOL_ARGS_CHARS THEN args_str
    ELSE IF fn_name = "write_file"
    THEN IF p.ok
         THEN Dumps(SetKey(p.value, S_content,
                           CharsWritten(Len(Get(p.value, S_content)))))
         ELSE cut
    ELSE IF fn_name = "edit_file"
    THEN IF p.ok
         THEN Dumps(SetKey(SetKey(p.value, S_old_str,
                                  Prefix(Get(p.value, S_old_str), 60) \o S_DOTS),
                           S_new_str, Prefix(Get(p.value, S_new_str), 60) \o S_DOTS))
         ELSE cut
    ELSE cut

\* a slip: the name is bound to the stored object itself instead of a copy
NoCopy(d) == [shared |-> TRUE]

\* dict(d): a new object with the items of d; writes to it do not reach d
DictCopy(d) == [shared |-> FALSE]

\* one pass of "for tc in msg["tool_calls"]": out is the entry appended to
\* compressed_calls, stored is the entry of the stored message afterwards
CompressedCall(tc) ==
    LET tc_copy == DictCopy(tc)
        fn_copy == DictCopy(tc.function)
        fn == [tc.function EXCEPT
                 !.arguments = CompressedArguments(tc.function.name, @)]
        fn_stored == IF fn_copy.shared THEN fn ELSE tc.function
        out == [tc EXCEPT !.function = fn]
    IN  [out |-> out,
         stored |-> IF tc_copy.shared THEN out ELSE [tc EXCEPT !.function = fn_stored]]

\* the body of the loop of _truncate_tool_results for a message before
\* recent_cutoff: out is the message appended to result, stored is the
\* message of the history afterwards
TruncatedMsg(msg) ==
    IF msg.role = "tool"
    THEN IF Len(msg.content) > MAX_TOOL_RESULT_CHARS
         THEN LET out == [msg EXCEPT !.content = OldToolContent(@)] IN
              [out |-> out, stored |-> IF DictCopy(msg).shared THEN out ELSE msg]
         ELSE [out |-> msg, stored |-> msg]
    ELSE IF msg.role = "assistant"
    THEN LET text == IF Len(msg.content) > MAX_OLD_ASSISTANT_CHARS
                     THEN Prefix(msg.content, MAX_OLD_ASSISTANT_CHARS) \o S_DOTS
                     ELSE msg.content
             has_calls == "tool_calls" \in DOMAIN msg /\ msg.tool_calls # <<>>
             calls == IF has_calls
                      THEN [k \in 1..Len(msg.tool_calls) |-> CompressedCall(msg.tool_calls[k])]
                      ELSE <<>>
             out == IF has_calls
                    THEN [msg EXCEPT !.content = text,
                                     !.tool_calls = [k \in 1..Len(calls) |-> calls[k].out]]
                    ELSE [msg EXCEPT !.content = text]
             kept == IF has_calls
                     THEN [msg EXCEPT
                             !.tool_calls = [k \in 1..Len(calls) |-> calls[k].stored]]
                     ELSE msg
         IN  [out |-> out, stored |-> IF DictCopy(msg).shared THEN out ELSE kept]
    ELSE [out |-> msg, stored |-> msg]

\* a slip: the messages before recent_cutoff are left out of the result
TruncateDropsOld(h) == [result |-> Tail_n(h, RECENT_KEPT), stored |-> h]

\* _truncate_tool_results(history): result is the list it returns, stored is
\* the list it was given as the call leaves it
TruncateToolResults(h) ==
    LET recent_cutoff == Len(h) - RECENT_KEPT
        each == [i \in 1..Len(h) |->
                   IF i - 1 >= recent_cutoff THEN [out |-> h[i], stored |-> h[i]]
                   ELSE TruncatedMsg(h[i])]
    IN  [result |-> [i \in 1..Len(h) |-> each[i].out],
         stored |-> [i \in 1..Len(h) |-> each[i].stored]]

\* the tool results of the stored histories: 20 lines of 45 characters, 11
\* lines of 80, 2 lines of 450, and one of exactly MAX_TOOL_RESULT_CHARS
LineOf(k, width) == Digits(k) \o Chars(width - Len(Digits(k)), "x")
T_20_lines == JoinNl([k \in 1..20 |-> LineOf(k, 45)])
T_11_lines == JoinNl([k \in 1..11 |-> LineOf(k, 80)])
T_2_lines == JoinNl([k \in 1..2 |-> LineOf(k, 450)])
T_at_limit == Chars(MAX_TOOL_RESULT_CHARS, "y")

\* an entry of tool_calls as run_agent stores it
StoredCall(id, name, args_str) ==
    [id |-> id, type |-> "function", function |-> [name |-> name, arguments |-> args_str]]

M_tool(content) == [role |-> "tool", tool_call_id |-> 1, content |-> content]
M_long_text == [role |-> "assistant", content |-> Chars(301, "t")]
M_writes ==
    [role |-> "assistant", content |-> <<>>,
     tool_calls |-> <<StoredCall(1, "write_file", Dumps(A_write)),
                      StoredCall(2, "edit_file", Dumps(A_edit)),
                      StoredCall(3, "write_file", Dumps(A_write_no_content))>>]
M_others ==
    [role |-> "assistant", content |-> <<>>,
     tool_calls |-> <<StoredCall(1, "run_command", Dumps(A_command)),
                      StoredCall(2, "write_file", NOT_JSON),
                      StoredCall(3, "read_file", Dumps(A_read))>>]
M_user == [role |-> "user", content |-> Chars(301, "u")]

\* the messages a stored history is built from: any of OldPool up to MaxOld
\* messages, then any of RecentPool
OldPool == {M_tool(T_20_lines), M_tool(T_11_lines), M_tool(T_2_lines), M_tool(T_at_limit),
            M_long_text, M_writes, M_others, M_user}
RecentPool == {M_tool(T_20_lines), M_writes}

\* bound of the model: messages of OldPool at the start of a history
MaxOld == 2

SYSTEM_PROMPT == <<"SYSTEM_PROMPT">>

\* history.append(...): the history of a session so far
TruncAppend ==
    /\ sent = <<>>
    /\ Len(history) < MaxOld + RECENT_KEPT
    /\ \E m \in (IF Len(history) < MaxOld THEN OldPool ELSE RecentPool) :
         history' = Append(history, m)
    /\ UNCHANGED <<trimmed, serial, sent, pc, pending, next_tc, final_content, requests,
                   at_request, after_tools, turn_end, fsVars, bgVars, supVars, cliVars, runVars>>

\* messages = [system prompt] + _truncate_tool_results(history)
TruncateCall ==
    /\ sent = <<>>
    /\ \E t \in {TruncateToolResults(history)} :
         /\ sent' = <<[role |-> "system", content |-> SYSTEM_PROMPT]>> \o t.result
         /\ history' = t.stored
    /\ UNCHANGED <<trimmed, serial, pc, pending, next_tc, final_content, requests,
                   at_request, after_tools, turn_end, fsVars, bgVars, supVars, cliVars, runVars>>

(***************************************************************************)
(* The supervisor of background processes (tools.py) under the chat loop   *)
(* of cli.py: each tool is one call of the main thread                      *)
(***************************************************************************)
\* time.sleep(min(wait_seconds, 30))
WAIT_CAP == 30
\* the pids the operating system gives to the children, each once, and a pid
\* that is never given
Pids == {7}
NO_SUCH_PID == 9
\* wait_seconds as the model of the API may send it
WaitSeconds == {0 - 1, 5, 60}
\* the exit codes of a process that ends by itself
ExitCodes == {0, 1}
\* proc.returncode of a child ended by SIGTERM and by SIGKILL
BY_SIGTERM == 0 - 15
BY_SIGKILL == 0 - 9

\* bound of the model: lines in the buffer of one process
MaxBufLines == 1

NoProc == [state |-> "none", code |-> 0]
Running == [state |-> "running", code |-> 0]
Exited(code) == [state |-> "exited", code |-> code]

\* proc.poll() is None
Alive(ps, pid) == ps[pid].state = "running"

\* what a supervisor call gave back: kind names the text returned (or the
\* exception raised), the other fields are what the text says
Result(tool, pid, kind) ==
    [tool |-> tool, pid |-> pid, kind |-> kind, raised |-> FALSE, status |-> "-",
     code |-> 0, crash |-> FALSE, output |-> <<>>, listed |-> {}, slept |-> 0,
     signalled |-> <<>>, before |-> "-", steps |-> <<>>]

\* "RUNNING" if alive else f"EXITED (code: {proc.returncode})"
WithStatus(res, ps, pid) ==
    IF Alive(ps, pid) THEN [res EXCEPT !.status = "RUNNING"]
    ELSE [res EXCEPT !.status = "EXITED", !.code = ps[pid].code]

\* if not alive and proc.returncode != 0: the crash warning is added
CrashFlag(alive, returncode) == ~alive /\ returncode # 0

\* _background_processes[pid] = {...}; started_at is the time of the call,
\* told by the number of messages the session has appended so far
Registered(bp, pid, command, buf, now) ==
    [p \in DOMAIN bp \cup {pid} |->
       IF p = pid THEN [command |-> command, output_buf |-> buf, started_at |-> now]
       ELSE bp[p]]

\* a slip: check_background drops the entry of a process it finds exited
DroppedWhenExited(bp, ps, pid) == IF Alive(ps, pid) THEN bp ELSE [p \in DOMAIN bp \ {pid} |-> bp[p]]

\* the registry as check_background leaves it: it only reads the entry
AfterCheck(bp, ps, pid) == bp

\* a slip: the entry is looked up with [pid], which raises for a missing key
UntrackedRaises(tool, pid) ==
    [Result(tool, pid, "KeyError") EXCEPT !.raised = TRUE, !.before = "untracked"]

\* if not entry: return f"Error: no tracked process with PID {pid}. ..."
Untracked(tool, pid) == [Result(tool, pid, "not_tracked") EXCEPT !.before = "untracked"]

\* a slip: the entry stays in the registry
EntryKept(bp, pid) == bp

\* del _background_processes[pid]
Deleted(bp, pid) == [p \in DOMAIN bp \ {pid} |-> bp[p]]

\* a slip: proc.poll() is not asked before the signals are sent
BeforeNoPoll(bp, ps, pid) == IF pid \notin DOMAIN bp THEN "untracked" ELSE "alive"

\* what stop_background finds: no entry, or proc.poll() of the entry's process
Before(bp, ps, pid) ==
    IF pid \notin DOMAIN bp THEN "untracked"
    ELSE IF Alive(ps, pid) THEN "alive" ELSE "exited"

supOther == <<fsVars, agentVars, trimVars, cliVars, runVars, output_buf, buf_lock, rd_pc, rd_line, produced,
              appended, truncations, bg_recent, started_with, stream, accesses, mainVars>>

\* run_background(work_dir, command, wait_seconds): Popen fails, or the child
\* gets a new pid; the wait raises for a negative wait_seconds; during the
\* wait the child may end and its readers deliver lines
RunBackground ==
    \E wait_seconds \in WaitSeconds, spawns \in BOOLEAN :
       IF ~spawns
       THEN /\ sup_last' = Result("run_background", NO_SUCH_PID, "spawn_error")
            /\ UNCHANGED <<procs, background_processes, registry, signals, supOther>>
       ELSE \E pid \in Pids, ends \in {Running} \cup {Exited(c) : c \in ExitCodes},
               n \in 0..MaxBufLines :
              /\ procs[pid] = NoProc
              /\ \A q \in Pids : q < pid => procs[q] # NoProc
              /\ IF wait_seconds < 0
                 THEN /\ n = 0 /\ ends = Running
                      /\ procs' = [procs EXCEPT ![pid] = Running]
                      /\ sup_last' = [Result("run_background", pid, "ValueError")
                                        EXCEPT !.raised = TRUE]
                      /\ UNCHANGED <<background_processes, registry>>
                 ELSE /\ procs' = [procs EXCEPT ![pid] = ends]
                      /\ background_processes' =
                           Registered(background_processes, pid, "c", [k \in 1..n |-> k],
                                      serial)
                      /\ registry' = DOMAIN background_processes'
                      /\ sup_last' =
                           [WithStatus(Result("run_background", pid, "started"), procs', pid)
                              EXCEPT !.crash = CrashFlag(Alive(procs', pid), procs'[pid].code),
                                     !.output = [k \in 1..n |-> k],
                                     !.slept = IF wait_seconds < WAIT_CAP THEN wait_seconds
                                               ELSE WAIT_CAP]
              /\ UNCHANGED <<signals, supOther>>

\* check_background(pid)
CheckBackgroundCall ==
    \E pid \in Pids \cup {NO_SUCH_PID} :
       /\ IF pid \notin DOMAIN background_processes
          THEN /\ sup_last' = Untracked("check_background", pid)
               /\ UNCHANGED <<background_processes, registry>>
          ELSE /\ sup_last' =
                    [WithStatus(Result("check_background", pid, "status"), procs, pid)
                       EXCEPT !.output = Tail_n(background_processes[pid].output_buf,
                                                RECENT_LINES),
                              !.before = Before(background_processes, procs, pid)]
               /\ background_processes' = AfterCheck(background_processes, procs, pid)
               /\ registry' = DOMAIN background_processes'
       /\ UNCHANGED <<procs, signals, supOther>>

\* what the child does with the signals of stop_background
Reactions == {"terminate_raises", "ends_on_terminate", "ends_on_kill", "outlives_kill"}

GRACE_WAIT == 5
KILL_WAIT == 3

Step(op, timeout, outcome) == [op |-> op, timeout |-> timeout, outcome |-> outcome]

\* an escalation that kills without the graceful request and its wait
EscalationKillsAtOnce(reaction) ==
    <<Step("kill", 0, "sent"),
      Step("wait", KILL_WAIT,
           IF reaction = "outlives_kill" THEN "TimeoutExpired" ELSE "exited")>>

\* the try block of stop_background on a process found alive: the calls made
\* on proc, in order, each with its timeout and what came of it
Escalation(reaction) ==
    IF reaction = "terminate_raises" THEN <<Step("terminate", 0, "raised")>>
    ELSE IF reaction = "ends_on_terminate"
    THEN <<Step("terminate", 0, "sent"), Step("wait", GRACE_WAIT, "exited")>>
    ELSE <<Step("terminate", 0, "sent"), Step("wait", GRACE_WAIT, "TimeoutExpired"),
           Step("kill", 0, "sent"),
           Step("wait", KILL_WAIT,
                IF reaction = "ends_on_kill" THEN "exited" ELSE "TimeoutExpired")>>

\* the signals the calls delivered, in order
SignalsSent(steps) ==
    (IF \E i \in 1..Len(steps) : steps[i] = Step("terminate", 0, "sent")
     THEN <<"SIGTERM">> ELSE <<>>)
    \o (IF \E i \in 1..Len(steps) : steps[i] = Step("kill", 0, "sent")
        THEN <<"SIGKILL">> ELSE <<>>)

\* stop_background(pid)
StopBackground ==
    \E pid \in Pids \cup {NO_SUCH_PID}, reaction \in Reactions :
       \E b \in {Before(background_processes, procs, pid)} :
          /\ b # "alive" => reaction = "ends_on_terminate"
          /\ CASE b = "untracked" ->
                    /\ sup_last' = Untracked("stop_background", pid)
                    /\ UNCHANGED <<procs, background_processes, registry, signals>>
               [] b = "exited" ->
                    /\ background_processes' = Deleted(background_processes, pid)
                    /\ registry' = DOMAIN background_processes'
                    /\ sup_last' = [Result("stop_background", pid, "already_exited")
                                      EXCEPT !.before = b, !.status = "EXITED",
                                             !.code = procs[pid].code]
                    /\ UNCHANGED <<procs, signals>>
               [] b = "alive" ->
                    \E steps \in {Escalation(reaction)} :
                       \E sigs \in {SignalsSent(steps)},
                          seen \in {Last(steps).outcome = "exited"} :
                          /\ signals' = [signals EXCEPT ![pid] = @ \cup Range(sigs)]
                          /\ procs' = IF seen
                                      THEN [procs EXCEPT ![pid] =
                                               Exited(IF Len(sigs) = 2 THEN BY_SIGKILL
                                                      ELSE BY_SIGTERM)]
                                      ELSE procs
                          /\ background_processes' =
                                IF seen THEN Deleted(background_processes, pid)
                                ELSE background_processes
                          /\ registry' = DOMAIN background_processes'
                          /\ sup_last' =
                                [Result("stop_background", pid,
                                        IF seen THEN "stopped" ELSE "stop_error")
                                   EXCEPT !.before = b, !.signalled = sigs,
                                          !.steps = steps]
          /\ UNCHANGED supOther

\* list_background()
ListBackground ==
    /\ sup_last' =
         IF DOMAIN background_processes = {}
         THEN Result("list_background", NO_SUCH_PID, "none_running")
         ELSE [Result("list_background", NO_SUCH_PID, "list")
                 EXCEPT !.listed = DOMAIN background_processes]
    /\ UNCHANGED <<procs, background_processes, registry, signals, supOther>>

\* a child ends by itself
ProcExit ==
    \E pid \in Pids, c \in ExitCodes :
       /\ procs[pid] = Running
       /\ procs' = [procs EXCEPT ![pid] = Exited(c)]
       /\ UNCHANGED <<background_processes, registry, signals, sup_last, supOther>>

\* a reader thread of a tracked process appends a line to its buffer
ReaderDelivers ==
    \E pid \in DOMAIN background_processes :
       /\ Len(background_processes[pid].output_buf) < MaxBufLines
       /\ background_processes' =
            [background_processes EXCEPT ![pid].output_buf = Append(@, Len(@) + 1)]
       /\ UNCHANGED <<procs, registry, signals, sup_last, supOther>>

(***************************************************************************)
(* The chat loop (cli.py, main): /clear, /auto, and a turn with the        *)
(* auto-compact check after it                                              *)
(***************************************************************************)
MAX_COMPACTS == 3
\* cfg.get("context_limit", 128000)
CONTEXT_LIMIT == 128000
\* the prompt tokens run_agent may report for a turn that got a response:
\* just under and at 80% of the context limit
TokenCounts == {102399, 102400}

\* what summarize_context returns: the text of the model, or the text of its
\* except branch when the request raises
Summaries == {<<"s">>, <<"(Summary failed: ", "e", ")">>}

\* how the request of summarize_context ends
SummaryOutcomes == {"answered", "raised"}

\* a slip: the failure is passed on as an empty summary
EmptyOnFailure(outcome) == IF outcome = "raised" THEN <<>> ELSE <<"s">>

\* summarize_context: the text of the response, or of the except branch
SummarizeContext(outcome) ==
    IF outcome = "raised" THEN <<"(Summary failed: ", "e", ")">> ELSE <<"s">>

\* {"role": "system", "content": f"[Session summary from auto-compact #{n}]\n{summary}"}
SummaryMsg(n, summary) ==
    [role |-> "system",
     content |-> <<"[Session summary from auto-compact #", ToString(n), "]\n">> \o summary]

\* a slip: the summary is appended to the history instead of replacing it
CompactedAppend(h, n, summary) == Append(h, SummaryMsg(n, summary))

\* history = [{...summary...}]
Compacted(h, n, summary) == <<SummaryMsg(n, summary)>>

\* pct >= 0.8 with pct = cumulative_tokens / context_limit
OverThreshold(tokens) == CONTEXT_LIMIT > 0 /\ 10 * tokens >= 8 * CONTEXT_LIMIT

\* a slip: /clear leaves compact_count as it is
CountKeptOnClear(n) == n

\* /clear: compact_count = 0
CountOnClear(n) == 0

\* cli.py, main: /clear
CliClear ==
    /\ history' = <<>>
    /\ cumulative_tokens' = 0
    /\ compact_count' = CountOnClear(compact_count)
    /\ UNCHANGED <<auto_compact, compactions, summarized, pc, pending, next_tc, final_content, requests,
                   at_request, after_tools, turn_end, fsVars, bgVars, trimVars, supVars,
                   runVars>>

\* cli.py, main: /auto
CliAuto ==
    /\ auto_compact' = ~auto_compact
    /\ UNCHANGED <<compact_count, cumulative_tokens, compactions, summarized, fsVars,
                   agentVars, bgVars,
                   trimVars, supVars, runVars>>

\* the history run_agent returns for a turn answered by text: the user
\* message appended, the trim, and the text of the response
AfterTurn(h) ==
    Append(TrimHistory(Append(h, [role |-> "user", content |-> USER_MESSAGE])),
           AssistantMsg("done", <<>>))

\* cli.py, main: a user message: run_agent, cumulative_tokens, and the
\* auto-compact check
CliTurn ==
    \E used \in TokenCounts, outcome \in SummaryOutcomes :
          /\ serial + 2 <= MaxHist
          /\ serial' = serial + 2
          /\ IF auto_compact /\ OverThreshold(used)
             THEN IF compact_count >= MAX_COMPACTS
                  THEN /\ outcome = "answered"
                       /\ auto_compact' = FALSE
                       /\ history' = AfterTurn(history)
                       /\ cumulative_tokens' = used
                       /\ UNCHANGED <<compact_count, compactions, summarized>>
                  ELSE /\ compact_count' = compact_count + 1
                       /\ compactions' = compactions + 1
                       /\ summarized' = outcome
                       /\ history' = Compacted(AfterTurn(history), compact_count + 1,
                                               SummarizeContext(outcome))
                       /\ cumulative_tokens' = 0
                       /\ UNCHANGED auto_compact
             ELSE /\ outcome = "answered"
                  /\ history' = AfterTurn(history)
                  /\ cumulative_tokens' = used
                  /\ UNCHANGED <<auto_compact, compact_count, compactions, summarized>>
          /\ UNCHANGED <<trimmed, sent, pc, pending, next_tc, final_content, requests,
                         at_request, after_tools, turn_end, fsVars, bgVars, supVars,
                         runVars>>

(***************************************************************************)
(* Initial states and specifications                                       *)
(***************************************************************************)
InitFs ==
    /\ files = InitFiles
    /\ dirs = InitDirs
    /\ io = <<>>
    /\ fs_last = [tool |-> "none", path |-> <<>>, raised |-> FALSE, exc |-> "",
                  text |-> <<>>, call |-> [tool |-> "none"]]

\* no response has been received and no turn has begun
InitRun ==
    /\ message = NoMsg
    /\ tickers = <<>>

\* cli.py, main: history = [] before the chat loop
InitAgent ==
    /\ history = <<>>
    /\ pc = "idle"
    /\ pending = <<>>
    /\ next_tc = 1
    /\ final_content = NoText
    /\ requests = 0
    /\ at_request = <<>>
    /\ after_tools = FALSE
    /\ turn_end = "none"

\* no background process has been started
InitNoProcess ==
    /\ output_buf = <<>>
    /\ buf_lock = "free"
    /\ rd_pc = [t \in Readers |-> "done"]
    /\ rd_line = [t \in Readers |-> 0]
    /\ produced = [t \in Readers |-> 0]
    /\ appended = <<>>
    /\ truncations = 0
    /\ bg_recent = <<>>
    /\ registry = {}
    /\ started_with = [t \in Readers |-> 0]
    /\ stream = [t \in Readers |-> "closed"]
    /\ bg_lock = "free"
    /\ main_pc = MainIdle
    /\ accesses = {}
    /\ ops = 0

\* run_background has returned: the process is tracked, both readers run, and
\* stdout has delivered n0 lines so far (none, or PreFill)
InitProcess ==
    /\ \E n0 \in {0, PreFill} :
         /\ output_buf = [k \in 1..n0 |-> TaggedLine("stdout", k)]
         /\ appended = [k \in 1..n0 |-> TaggedLine("stdout", k)]
         /\ produced = [t \in Readers |-> IF t = "stdout" THEN n0 ELSE 0]
         /\ started_with = [t \in Readers |-> IF t = "stdout" THEN n0 ELSE 0]
    /\ buf_lock = "free"
    /\ rd_pc = [t \in Readers |-> "readline"]
    /\ rd_line = [t \in Readers |-> 0]
    /\ truncations = 0
    /\ bg_recent = <<>>
    /\ registry = TRACKED
    /\ stream = [t \in Readers |-> "open"]
    /\ bg_lock = "free"
    /\ main_pc = MainIdle
    /\ accesses = {}
    /\ ops = 0

\* _trim_history has not been called on its own
InitNoTrim ==
    /\ trimmed = [in |-> <<>>, out |-> <<>>]
    /\ serial = 0
    /\ sent = <<>>

\* _background_processes = {} (tools.py): nothing spawned, nothing tracked
InitNoSup ==
    /\ procs = [p \in Pids |-> NoProc]
    /\ background_processes = <<>>
    /\ signals = [p \in Pids |-> {}]
    /\ sup_last = Result("none", NO_SUCH_PID, "none")

\* cli.py, main: the settings of the chat loop before the first input
InitCli ==
    /\ auto_compact = FALSE
    /\ compact_count = 0
    /\ cumulative_tokens = 0
    /\ compactions = 0
    /\ summarized = "none"

InitView(mode) == InitFs /\ InitAgent /\ InitNoProcess /\ InitNoTrim /\ InitNoSup /\ InitCli
                  /\ InitRun /\ view_mode = mode

\* a session in advanced view, which starts no ticker thread
Init == InitView("advanced")

Next ==
    \/ RunAgentStart
    \/ SendRequest
    \/ ApiError
    \/ ResponseText
    \/ ResponseTools
    \/ Dispatch

\* the agent loop of one session
Spec == Init /\ [][Next]_vars

NextFs == FsToolCall

\* the filesystem tools on their own
SpecFs == Init /\ [][NextFs]_vars

NextBg ==
    \/ \E t \in Readers : ReadLine(t)
    \/ \E t \in Readers : ReaderEof(t)
    \/ \E t \in Readers : ReaderRaises(t)
    \/ \E t \in Readers : StreamClose(t)
    \/ \E t \in Readers : ReaderAcquire(t)
    \/ \E t \in Readers : ReaderAppend(t)
    \/ \E t \in Readers : ReaderCheck(t)
    \/ CheckBackgroundRead

InitBg == InitFs /\ InitAgent /\ InitProcess /\ InitNoTrim /\ InitNoSup /\ InitCli
          /\ InitRun /\ view_mode = "advanced"

\* the readers of one tracked background process and check_background
SpecBg == InitBg /\ [][NextBg]_vars

\* the chat loop is at its prompt, whatever the history holds
InitIdle ==
    /\ InitFs /\ InitNoProcess /\ InitNoSup
    /\ InitRun /\ view_mode = "advanced"
    /\ pc = "idle"
    /\ pending = <<>>
    /\ next_tc = 1
    /\ final_content = NoText
    /\ requests = 0
    /\ at_request = <<>>
    /\ after_tools = FALSE
    /\ turn_end = "none"
    /\ InitNoTrim

\* a session that has run LongStart / 2 turns answered by text: the history
\* holds their user and assistant messages; /auto may have been entered
InitLong ==
    /\ InitIdle
    /\ history = [k \in 1..LongStart |-> SerialMsg(k)]
    /\ auto_compact \in BOOLEAN
    /\ compact_count = 0
    /\ cumulative_tokens = 0
    /\ compactions = 0
    /\ summarized = "none"

\* the k-th message of a history whose turns each had one tool round: the
\* user message, the assistant message calling read_file, the tool message
\* with the file's content, the assistant's text
ToolTurnMsg(k) ==
    CASE k % 4 = 1 -> [role |-> "user", content |-> USER_MESSAGE]
      [] k % 4 = 2 -> AssistantMsg("", <<[id |-> k, name |-> "read_file",
                                          arguments |-> Obj([path |-> P_x])]>>)
      [] k % 4 = 3 -> ToolMsg(k - 1, T_aba)
      [] OTHER -> AssistantMsg("done", <<>>)

\* a session that has run LongStart / 2 turns answered by text, or
\* LongStart / 4 turns of one tool round each
InitLongAny ==
    /\ InitIdle /\ InitCli
    /\ history \in {[k \in 1..LongStart |-> SerialMsg(k)],
                     [k \in 1..LongStart |-> ToolTurnMsg(k)]}

\* the agent loop late in a session
SpecLong == InitLongAny /\ [][Next]_vars

NextSup ==
    \/ RunBackground
    \/ CheckBackgroundCall
    \/ StopBackground
    \/ ListBackground
    \/ ProcExit
    \/ ReaderDelivers
    \/ CliClear
    \/ CliTurn

\* the background tools called late in a session, with the chat loop around
\* them
SpecSup == InitLong /\ [][NextSup]_vars

\* a session in which up to MAX_COMPACTS - 1 compactions have been performed
\* and nothing was cleared, with a short or a long history
InitSession ==
    /\ InitIdle
    /\ history \in {<<>>, [k \in 1..LongStart |-> SerialMsg(k)]}
    /\ auto_compact \in BOOLEAN
    /\ compact_count \in 0..(MAX_COMPACTS - 1)
    /\ compactions = compact_count
    /\ summarized \in IF compact_count = 0 THEN {"none"} ELSE SummaryOutcomes
    /\ cumulative_tokens = 0

NextCli ==
    \/ CliClear
    \/ CliAuto
    \/ CliTurn

\* the chat loop: any sequence of /clear, /auto and turns
SpecCli == InitSession /\ [][NextCli]_vars

NextTrunc ==
    \/ TruncAppend
    \/ TruncateCall

\* _truncate_tool_results called on stored histories of every composition
SpecTrunc == Init /\ [][NextTrunc]_vars

NextTrim ==
    \/ TrimAppend
    \/ TrimCall

\* a history that grows message by message and is trimmed at any length
SpecTrim == Init /\ [][NextTrim]_vars

(***************************************************************************)
(* Properties                                                              *)
(***************************************************************************)
HasCalls(m) == m.role = "assistant" /\ "tool_calls" \in DOMAIN m

\* index of the last assistant message of h that carries tool calls (0: none)
RECURSIVE LastCallMsg(_, _)
LastCallMsg(h, i) ==
    IF i = 0 THEN 0 ELSE IF HasCalls(h[i]) THEN i ELSE LastCallMsg(h, i - 1)

\* the tool messages of h after position a that carry the id
AnswersAfter(h, a, id) ==
    {j \in (a + 1)..Len(h) : h[j].role = "tool" /\ h[j].tool_call_id = id}

\* C1: a filesystem tool called with a path that resolves outside the working
\* directory raises the path-escape error and makes no filesystem syscall.
C1_EscapingPathRejected ==
    (fs_last.tool # "none" /\ Escapes(fs_last.path))
        => (fs_last.raised /\ fs_last.exc = "ValueError" /\ io = <<>>)

\* C2: when a request has been sent after a dispatch round, every tool call of
\* the response that was dispatched has exactly one tool message with its id
\* after the assistant message that emitted it.
C2_EachCallAnsweredOnce ==
    (pc = "await" /\ after_tools) =>
        /\ LastCallMsg(history, Len(history)) > 0
        /\ history[LastCallMsg(history, Len(history))].tool_calls = pending
        /\ \A k \in 1..Len(pending) :
             Cardinality(AnswersAfter(history, LastCallMsg(history, Len(history)),
                                      pending[k].id)) = 1

C2_Witness ==
    /\ pc = "await"
    /\ after_tools
    /\ \E j \in 1..Len(history) :
         /\ j < LastCallMsg(history, Len(history))
         /\ history[j].role = "tool"
         /\ history[j].tool_call_id = pending[1].id

\* C3: the tool messages of a response follow its assistant message in the
\* order of its calls, and no other message comes before the last of them.
C3_ResultsInCallOrder ==
    \A a \in 1..Len(history) :
        HasCalls(history[a]) =>
            \A k \in 1..Len(history[a].tool_calls) :
                (a + k <= Len(history)) =>
                    /\ history[a + k].role = "tool"
                    /\ history[a + k].tool_call_id = history[a].tool_calls[k].id

C3_Witness ==
    \E a \in 1..Len(history) :
        /\ HasCalls(history[a])
        /\ Len(history[a].tool_calls) >= 2
        /\ a + Len(history[a].tool_calls) < Len(history)
        /\ history[a + Len(history[a].tool_calls) + 1].role = "assistant"

\* C4: a call whose arguments do not parse into the handler's parameters is
\* answered by a tool message; no exception leaves execute_tool or run_agent.
C4_BadArgumentsAnswered ==
    ~(pc = "crashed" /\ turn_end \in {"JSONDecodeError", "KeyError"})

\* C5: a call that names an unknown tool, whatever its arguments, is answered
\* by a tool message with the unknown-tool error and the loop goes on.
C5_UnknownToolAnswered ==
    /\ pc = "crashed" => pending[next_tc].name \in TOOL_NAMES
    /\ \A k \in 1..Len(pending) :
         (k < next_tc /\ pending[k].name \notin TOOL_NAMES) =>
             history[LastCallMsg(history, Len(history)) + k].content[1]
                 = "Error: unknown tool '"

\* C6: an error of a filesystem, shell or background tool reaches the model as
\* the text of a tool message; a turn ends without a final answer only when
\* the model request fails.
C6_ToolErrorsStayInLoop ==
    /\ ~(pc = "crashed" /\ turn_end \in {"ValueError", "OSError"})
    /\ (pc = "idle" /\ final_content = NoText) => turn_end \in {"none", "api_error"}

\* C7: a failed model request ends the turn with the history exactly as it was
\* when the request was sent.
C7_ApiErrorKeepsHistory ==
    turn_end = "api_error" => (pc = "idle" /\ history = at_request)

C7_Witness ==
    /\ turn_end = "api_error"
    /\ after_tools
    /\ Last(history).role = "tool"

\* C8: apart from a transport failure, a turn has ended only if the last
\* response carried no tool calls, and its text is the final answer.
C8_TurnEndsOnTextOnly ==
    (pc \in {"idle", "crashed"} /\ turn_end \notin {"none", "api_error"}) =>
        /\ Last(history).role = "assistant"
        /\ ~HasCalls(Last(history))
        /\ final_content = Last(history).content

\* C9: the output buffer never holds more than 500 lines.
C9_BufferWithinCap == Len(output_buf) <= BUF_CAP

\* C10: a truncation leaves exactly 300 lines in the buffer, the 300 appended
\* last (by either reader) in their order of arrival.
C10_TruncationKeepsRecent ==
    [][truncations' # truncations =>
          /\ Len(output_buf') = BUF_KEEP
          /\ output_buf' = Tail_n(appended', BUF_KEEP)]_vars

C10_Witness ==
    /\ truncations > 0
    /\ Len(output_buf) = BUF_KEEP
    /\ \E i \in 1..Len(output_buf) : output_buf[i] < 0


\* C17: _trim_history is idempotent: trimming the result of a trim returns
\* that result unchanged
C17_TrimIdempotent == TrimHistory(trimmed.out) = trimmed.out

\* a history of more than 30 messages has been trimmed
C17_Witness ==
    /\ Len(trimmed.in) > MAX_HISTORY_MESSAGES
    /\ trimmed.out # trimmed.in
    /\ TrimHistory(trimmed.out) = trimmed.out

\* C18: a history of at most 30 messages is returned unchanged; a longer one
\* becomes its first message, one marker and its 29 most recent messages in
\* their order; the first message is never lost and the call adds at most one
\* marker
Markers(h) == Cardinality({i \in 1..Len(h) : h[i] = TRIM_MARKER})

C18_TrimShape ==
    LET arg == trimmed.in
        res == trimmed.out IN
    /\ Len(arg) <= 30 => res = arg
    /\ Len(arg) > 30 =>
         /\ Len(res) = 31
         /\ res[1] = arg[1]
         /\ res[2] = TRIM_MARKER
         /\ \A k \in 1..29 : res[2 + k] = arg[Len(arg) - 29 + k]
    /\ Markers(res) <= Markers(arg) + 1

\* a history of 32 messages that already carries a marker has been trimmed
C18_Witness ==
    /\ Len(trimmed.in) = 32
    /\ Markers(trimmed.in) = 1
    /\ Len(trimmed.out) = 31
    /\ trimmed.out[1] = SerialMsg(1)

\* C19: no request of a turn carries more history messages than a trimmed
\* history has (the first message, the marker and the 29 most recent ones)
C19_RequestsWithinTrimBound == Len(at_request) <= MAX_HISTORY_MESSAGES + 1

\* C20: _truncate_tool_results changes only the list it returns: the call that
\* builds the messages of a request leaves every message of the stored
\* history as it was, the entries of tool_calls and their function and
\* arguments included
C20_StoredHistoryUnchanged == [][sent' # sent => history' = history]_vars

\* a request has been built in which an old tool result, an old assistant
\* text and the arguments of an old tool call differ from the stored ones
C20_Witness ==
    /\ sent # <<>>
    /\ \E i, j \in 1..Len(history) :
         /\ i # j
         /\ history[i].role = "tool"
         /\ sent[i + 1].content # history[i].content
         /\ "tool_calls" \in DOMAIN history[j]
         /\ sent[j + 1].tool_calls[1].function.arguments
              # history[j].tool_calls[1].function.arguments

\* C11: check_background and stop_background called with a pid that has no
\* entry (never registered, or removed) return the error text, raise nothing
\* and leave the registry with every buffer as it was
C11_UntrackedPidIsAnError ==
    [][(/\ sup_last' # sup_last
        /\ sup_last'.tool \in {"check_background", "stop_background"}
        /\ sup_last'.pid \notin DOMAIN background_processes)
       => (/\ sup_last'.kind = "not_tracked"
           /\ ~sup_last'.raised
           /\ background_processes' = background_processes
           /\ procs' = procs)]_vars

\* check_background has been called with the pid of a process that was
\* stopped and removed
C11_Witness ==
    /\ sup_last.tool = "check_background"
    /\ sup_last.pid \in Pids
    /\ sup_last.kind = "not_tracked"
    /\ signals[sup_last.pid] # {}
    /\ background_processes = <<>>

\* C12 as stated: stop_background on a tracked pid whose process is alive
\* always ends with the process ended and the pid removed
C12_StopAlwaysRemoves ==
    (sup_last.tool = "stop_background" /\ sup_last.before = "alive")
    => (/\ procs[sup_last.pid].state = "exited"
        /\ sup_last.pid \notin DOMAIN background_processes)

\* C12, amended: stop_background on a tracked pid whose process is alive
\* either reports it stopped, with the process ended and the pid removed, or
\* returns the error text with the pid still tracked; list_background shows
\* exactly the tracked pids, so a stopped one is not shown
C12_StopRemovesOnSuccess ==
    /\ (sup_last.tool = "stop_background" /\ sup_last.before = "alive")
       => \/ /\ sup_last.kind = "stopped"
             /\ procs[sup_last.pid].state = "exited"
             /\ sup_last.pid \notin DOMAIN background_processes
          \/ /\ sup_last.kind = "stop_error"
             /\ sup_last.pid \in DOMAIN background_processes
    /\ sup_last.tool = "list_background"
       => sup_last.listed = DOMAIN background_processes

\* a process that did not end on SIGTERM has been killed and removed
C12_Witness ==
    /\ sup_last.tool = "stop_background"
    /\ sup_last.kind = "stopped"
    /\ sup_last.signalled = <<"SIGTERM", "SIGKILL">>
    /\ procs[sup_last.pid] = Exited(BY_SIGKILL)
    /\ sup_last.pid \notin DOMAIN background_processes

\* C13: stop_background on a tracked pid whose process has already ended
\* reports "already exited" with the exit code, sends no signal and removes
\* the pid; a second stop_background of that pid is answered as not tracked
C13_StopOfExitedProcess ==
    [][/\ (/\ sup_last' # sup_last
           /\ sup_last'.tool = "stop_background"
           /\ sup_last'.pid \in DOMAIN background_processes
           /\ ~Alive(procs, sup_last'.pid))
          => (/\ sup_last'.kind = "already_exited"
              /\ ~sup_last'.raised
              /\ sup_last'.code = procs[sup_last'.pid].code
              /\ sup_last'.signalled = <<>>
              /\ signals' = signals
              /\ procs' = procs
              /\ sup_last'.pid \notin DOMAIN background_processes')
       /\ (/\ sup_last.tool = "stop_background"
           /\ sup_last.kind = "already_exited"
           /\ sup_last' # sup_last
           /\ sup_last'.tool = "stop_background"
           /\ sup_last'.pid = sup_last.pid)
          => sup_last'.kind = "not_tracked"]_vars

\* a process that ended by itself with code 1 has been found exited by
\* stop_background
C13_Witness ==
    /\ sup_last.tool = "stop_background"
    /\ sup_last.kind = "already_exited"
    /\ sup_last.code = 1
    /\ signals[sup_last.pid] = {}
    /\ sup_last.pid \notin DOMAIN background_processes

\* C14: no process that run_background spawned is left running without an
\* entry in the registry
C14_RunningIsTracked ==
    \A p \in Pids : Alive(procs, p) => p \in DOMAIN background_processes

\* C15: run_background of a command that spawns never raises; it flags a
\* startup crash when the process has ended by the end of the wait, whatever
\* its exit code, and reports RUNNING without the flag when it is alive
C15_ExitDuringWaitIsFlagged ==
    (sup_last.tool = "run_background" /\ sup_last.kind # "spawn_error")
    => (/\ ~sup_last.raised
        /\ sup_last.status = "EXITED" => sup_last.crash
        /\ sup_last.status = "RUNNING" => ~sup_last.crash)

C21_TruncationKeepsStructure ==
    sent # <<>> =>
      /\ Len(sent) = Len(history) + 1
      /\ \A i \in 1..Len(history) :
           LET m == history[i]
               o == sent[i + 1] IN
           /\ o.role = m.role
           /\ DOMAIN o = DOMAIN m
           /\ m.role = "tool" => o.tool_call_id = m.tool_call_id
           /\ "tool_calls" \in DOMAIN m =>
                /\ Len(o.tool_calls) = Len(m.tool_calls)
                /\ \A k \in 1..Len(m.tool_calls) :
                     /\ o.tool_calls[k].id = m.tool_calls[k].id
                     /\ o.tool_calls[k].type = m.tool_calls[k].type
                     /\ o.tool_calls[k].function.name = m.tool_calls[k].function.name
           /\ i > Len(history) - 4 => o = m

\* a request has been built from a history of 6 messages whose first two are
\* sent shortened and whose 3rd, a long tool result, is sent as stored
C21_Witness ==
    /\ Len(sent) = 7
    /\ sent[2] # history[1]
    /\ sent[3] # history[2]
    /\ history[3] = M_tool(T_20_lines)
    /\ sent[4] = history[3]

\* C22: in every request every tool message comes after an assistant message
\* of that request whose tool_calls hold its tool_call_id, and every tool
\* call of an assistant message is followed by a tool message with its id
C22_RequestsKeepCallsAndResultsTogether ==
    /\ \A j \in 1..Len(at_request) :
         at_request[j].role = "tool" =>
           \E i \in 1..(j - 1) :
              /\ HasCalls(at_request[i])
              /\ \E k \in 1..Len(at_request[i].tool_calls) :
                   at_request[i].tool_calls[k].id = at_request[j].tool_call_id
    /\ \A i \in 1..Len(at_request) :
         HasCalls(at_request[i]) =>
           \A k \in 1..Len(at_request[i].tool_calls) :
              AnswersAfter(at_request, i, at_request[i].tool_calls[k].id) # {}

\* C23: a full compaction leaves a history of exactly one message, of role
\* system, that holds the summary, whatever the history was; the turn after
\* it works on that message followed by the new user message
C23_CompactionLeavesOneMessage ==
    [][/\ compactions' # compactions
          => /\ Len(history') = 1
             /\ history'[1].role = "system"
             /\ \E summary \in Summaries :
                  history'[1].content
                    = <<"[Session summary from auto-compact #", ToString(compact_count'),
                        "]\n">> \o summary
       /\ (/\ serial' # serial
           /\ compactions' = compactions
           /\ Len(history) = 1
           /\ history[1].role = "system")
          => /\ history'[1] = history[1]
             /\ history'[2] = [role |-> "user", content |-> USER_MESSAGE]]_vars

\* the turn after a full compaction has stored the summary, the user message
\* and the answer
C23_Witness ==
    /\ compactions > 0
    /\ serial >= 4
    /\ Len(history) = 3
    /\ history[1].role = "system"
    /\ history[2].role = "user"

\* C24: the full compactions performed in a session, whatever the user
\* enters, are never more than MAX_COMPACTS
C24_CompactionsWithinCap == compactions <= MAX_COMPACTS

(***************************************************************************)
(* edit_file and the occurrences of old_str                                *)
(***************************************************************************)
\* the positions of the text at which old occurs, overlapping ones included
OccurrencePositions(text, old) ==
    {i \in 1..(Len(text) - Len(old) + 1) : SubSeq(text, i, i + Len(old) - 1) = old}

\* the text with the occurrence of old at position i replaced by new
ReplacedAt(text, i, old, new) ==
    SubSeq(text, 1, i - 1) \o new \o SubSeq(text, i + Len(old), Len(text))

\* the last call was an edit_file of a file that existed
EditOfExistingFile ==
    /\ fs_last'.tool = "edit_file"
    /\ ~fs_last'.raised
    /\ NormPath(PathJoin(WORK_DIR, fs_last'.call.path)) \in DOMAIN files

\* C25: edit_file on an existing file: with no occurrence of old_str it
\* returns the not-found error, with occurrences at two or more positions
\* (overlapping ones included) the ambiguity error, and in both cases writes
\* nothing; with exactly one occurrence it replaces that occurrence and leaves
\* every other character and every other file as they were
C25_EditReplacesTheOneOccurrence ==
    [][EditOfExistingFile =>
         LET c == fs_last'.call
             full == NormPath(PathJoin(WORK_DIR, c.path))
             pos == OccurrencePositions(files[full], c.old_str)
         IN /\ pos = {} =>
                 /\ fs_last'.text = <<"Error: old_str not found in ">> \o c.path
                 /\ files' = files
            /\ Cardinality(pos) >= 2 =>
                 /\ Head(fs_last'.text) = "Error: old_str found "
                 /\ files' = files
            /\ Cardinality(pos) = 1 =>
                 /\ fs_last'.text = <<"Edited ">> \o c.path
                 /\ \E i \in pos :
                      files' = [files EXCEPT ![full] =
                                   ReplacedAt(@, i, c.old_str, c.new_str)]]_vars

(***************************************************************************)
(* write_file followed by read_file                                        *)
(***************************************************************************)
\* the path names a place for a regular file below the working directory
NamesFileInside(fs, path) ==
    LET full == NormPath(PathJoin(WORK_DIR, path)) IN
    /\ ~Escapes(path)
    /\ full # NormPath(WORK_DIR)
    /\ ~IsDir(fs, full)

\* C26: for every path inside the working directory (missing parent
\* directories included) and every content, write_file succeeds and a
\* read_file of the same path then returns exactly that content
C26_WriteThenReadReturnsContent ==
    (fs_last.tool = "write_file"
         /\ NamesFileInside(Fs(files, dirs, <<>>), fs_last.path))
        => /\ ~fs_last.raised
           /\ \E r \in {ReadFile(Fs(files, dirs, <<>>), WORK_DIR, fs_last.path)} :
                ~r.raised /\ r.text = fs_last.call.content

(***************************************************************************)
(* The cap on a tool result before it is stored (agent.py, run_agent)      *)
(***************************************************************************)
RESULT_CAP == 3000
CAP_LINES == 30
CAP_KEPT == 15

\* "\n...(output truncated)"
S_OUTPUT_TRUNCATED ==
    <<"\n", ".", ".", ".", "(", "o", "u", "t", "p", "u", "t", " ",
      "t", "r", "u", "n", "c", "a", "t", "e", "d", ")">>

\* what the for loop stores of a result of execute_tool
CappedResult(result) ==
    IF Len(result) > RESULT_CAP
    THEN LET lines == SplitNl(result) IN
         IF Len(lines) > CAP_LINES
         THEN JoinNl(SubSeq(lines, 1, CAP_KEPT)) \o <<"\n">>
                  \o OmittedLine(Len(lines) - CAP_LINES) \o <<"\n">>
                  \o JoinNl(Tail_n(lines, CAP_KEPT))
         ELSE Prefix(result, RESULT_CAP) \o S_OUTPUT_TRUNCATED
    ELSE result

\* results of execute_tool (read_file returns a file of any size whole):
\* a short one, one at the cap, many short lines, two very long lines, and
\* 31 long lines of two widths
O_short == <<"o", "k">>
O_at_cap == Chars(RESULT_CAP, "y")
O_40_short_lines == JoinNl([k \in 1..40 |-> LineOf(k, 80)])
O_2_long_lines == JoinNl([k \in 1..2 |-> LineOf(k, 2000)])
O_31_lines_of_200 == JoinNl([k \in 1..31 |-> LineOf(k, 200)])
O_31_lines_of_400 == JoinNl([k \in 1..31 |-> LineOf(k, 400)])

ToolOutputs == {O_short, O_at_cap, O_40_short_lines, O_2_long_lines,
                O_31_lines_of_200, O_31_lines_of_400}

\* bound of the model: tool calls of the response being dispatched
MaxResults == 3

\* run_agent has stored a response with MaxResults calls and enters the for loop
InitCap ==
    /\ InitFs /\ InitNoProcess /\ InitNoSup /\ InitNoTrim /\ InitCli
    /\ view_mode = "advanced"
    /\ tickers = <<Ticker("none")>>
    /\ pending = [i \in 1..MaxResults |->
                     [id |-> i, name |-> "read_file", arguments |-> Obj([path |-> P_x])]]
    /\ history = <<[role |-> "user", content |-> USER_MESSAGE],
                   AssistantMsg("", pending)>>
    /\ pc = "dispatch"
    /\ next_tc = 1
    /\ final_content = NoText
    /\ requests = 1
    /\ at_request = <<[role |-> "user", content |-> USER_MESSAGE]>>
    /\ after_tools = FALSE
    /\ turn_end = "running"
    /\ message = PlainMsg("", pending)

\* one pass of the for loop on a result of any shape: the result is capped
\* and the tool message appended
DispatchCapped ==
    /\ pc = "dispatch"
    /\ \E result \in ToolOutputs, tc \in {DispatchOrder(pending, next_tc)} :
         history' = Append(history, ToolMsg(tc.id, CappedResult(result)))
    /\ next_tc' = next_tc + 1
    /\ pc' = IF next_tc = Len(pending) THEN "request" ELSE "dispatch"
    /\ after_tools' = (next_tc = Len(pending) \/ after_tools)
    /\ UNCHANGED <<pending, final_content, requests, at_request, turn_end,
                   fsVars, bgVars, trimVars, supVars, cliVars, runVars>>

NextCap == DispatchCapped

SpecCap == InitCap /\ [][NextCap]_vars

\* the longest content the character cut of the cap produces
CUT_LENGTH == RESULT_CAP + Len(S_OUTPUT_TRUNCATED)

\* C27: every tool message run_agent appends has a content no longer than a
\* fixed constant, whatever the size and shape of the tool's output (many
\* short lines, a few very long lines, more than 30 long lines)
C27_ToolMessagesBounded ==
    \A i \in 1..Len(history) :
        history[i].role = "tool" => Len(history[i].content) <= CUT_LENGTH

\* C28: stop_background on a process found alive first requests termination
\* and waits up to 5 s; it kills only if that wait timed out, and then waits
\* up to 3 s; it deletes the entry only after a wait saw the process exited,
\* and when the final wait times out it returns the error text with the entry
\* still tracked
C28_StopEscalatesInOrder ==
    [][(/\ sup_last' # sup_last
        /\ sup_last'.tool = "stop_background"
        /\ sup_last'.before = "alive")
       => LET steps == sup_last'.steps
              pid == sup_last'.pid
          IN /\ steps[1].op = "terminate"
             /\ steps[1].outcome = "sent"
                  => Len(steps) >= 2 /\ steps[2] \in
                        {Step("wait", GRACE_WAIT, "exited"),
                         Step("wait", GRACE_WAIT, "TimeoutExpired")}
             /\ \A i \in 1..Len(steps) :
                   steps[i].op = "kill"
                     => /\ i = 3
                        /\ steps[2] = Step("wait", GRACE_WAIT, "TimeoutExpired")
                        /\ Len(steps) = 4
                        /\ steps[4].op = "wait" /\ steps[4].timeout = KILL_WAIT
             /\ (Len(steps) >= 2 /\ steps[2].outcome = "TimeoutExpired")
                  => Len(steps) = 4 /\ steps[3].op = "kill"
             /\ pid \notin DOMAIN background_processes'
                  => /\ Last(steps) \in {Step("wait", GRACE_WAIT, "exited"),
                                          Step("wait", KILL_WAIT, "exited")}
                     /\ procs'[pid].state = "exited"
             /\ Last(steps) = Step("wait", KILL_WAIT, "TimeoutExpired")
                  => /\ sup_last'.kind = "stop_error"
                     /\ pid \in DOMAIN background_processes'
                     /\ background_processes' = background_processes]_vars

\* a process that outlived both signals: stop_background returned the error
\* text after the final wait and the entry is still tracked
C28_Witness ==
    /\ sup_last.tool = "stop_background"
    /\ sup_last.kind = "stop_error"
    /\ Len(sup_last.steps) = 4
    /\ Last(sup_last.steps) = Step("wait", KILL_WAIT, "TimeoutExpired")
    /\ sup_last.pid \in DOMAIN background_processes
    /\ Alive(procs, sup_last.pid)

(***************************************************************************)
(* The threads of the supervisor (tools.py): the main thread inside        *)
(* run_background, check_background, stop_background and list_background,  *)
(* lock by lock, beside the two readers of the process                     *)
(***************************************************************************)
\* bounds of the model: supervisor tool calls of the main thread, and lines
\* the process writes to each stream
MaxOps == 3
MaxOut == 1

\* a slip: the registry lock is still held after the block
StillHeld(holder) == holder

\* the end of a with block: the lock is released
AfterWith(holder) == "free"

\* the main thread at position at of its tool, or out of it
MainAt(at) == IF at = "idle" THEN MainIdle ELSE [main_pc EXCEPT !.at = at]

\* run_background up to its sleep: Popen, the two reader threads are started,
\* time.sleep begins
MainSpawn ==
    /\ main_pc = MainIdle
    /\ ops < MaxOps
    /\ \E pid \in TRACKED :
         /\ procs[pid] = NoProc
         /\ procs' = [procs EXCEPT ![pid] = Running]
    /\ stream' = [t \in Readers |-> "open"]
    /\ rd_pc' = [t \in Readers |-> "readline"]
    /\ main_pc' = [tool |-> "run_background", at |-> "sleep"]
    /\ ops' = ops + 1
    /\ UNCHANGED <<output_buf, buf_lock, rd_line, produced, appended, truncations,
                   bg_recent, registry, started_with, accesses, bg_lock,
                   background_processes, signals, sup_last,
                   fsVars, agentVars, trimVars, cliVars, runVars>>

\* check_background, stop_background or list_background is called
MainBegin ==
    /\ main_pc = MainIdle
    /\ ops < MaxOps
    /\ \E tool \in {"check_background", "stop_background", "list_background"} :
         main_pc' = [tool |-> tool, at |-> "registry_wait"]
    /\ ops' = ops + 1
    /\ UNCHANGED <<output_buf, buf_lock, rd_pc, rd_line, produced, appended, truncations,
                   bg_recent, registry, started_with, stream, accesses, bg_lock,
                   fsVars, agentVars, trimVars, supVars, cliVars, runVars>>

\* time.sleep(min(wait_seconds, 30)) of run_background is over
MainWake ==
    /\ main_pc.at = "sleep"
    /\ main_pc' = MainAt("registry_wait")
    /\ UNCHANGED <<output_buf, buf_lock, rd_pc, rd_line, produced, appended, truncations,
                   bg_recent, registry, started_with, stream, accesses, bg_lock, ops,
                   fsVars, agentVars, trimVars, supVars, cliVars, runVars>>

\* with _bg_lock: (entering the block)
MainAcquireRegistry ==
    /\ main_pc.at \in {"registry_wait", "delete_wait"}
    /\ bg_lock = "free"
    /\ bg_lock' = "main"
    /\ main_pc' = MainAt(IF main_pc.at = "registry_wait" THEN "registry" ELSE "delete")
    /\ UNCHANGED <<output_buf, buf_lock, rd_pc, rd_line, produced, appended, truncations,
                   bg_recent, registry, started_with, stream, accesses, ops,
                   fsVars, agentVars, trimVars, supVars, cliVars, runVars>>

\* the block under _bg_lock: run_background stores the entry, check_background
\* and stop_background get it, list_background reads every entry and polls;
\* then the lock is released
MainRegistry ==
    /\ main_pc.at = "registry"
    /\ accesses' = accesses \cup {Access("main", "registry")}
    /\ bg_lock' = AfterWith(bg_lock)
    /\ registry' = IF main_pc.tool = "run_background" THEN registry \cup TRACKED
                   ELSE registry
    /\ main_pc' =
         MainAt(CASE main_pc.tool = "run_background" -> "buffer_wait"
                  [] main_pc.tool = "check_background" ->
                       IF TRACKED \subseteq registry THEN "buffer_wait" ELSE "idle"
                  [] main_pc.tool = "stop_background" ->
                       IF ~(TRACKED \subseteq registry) THEN "idle"
                       ELSE IF \A pid \in TRACKED : Alive(procs, pid) THEN "stopping"
                       ELSE "delete_wait"
                  [] main_pc.tool = "list_background" -> "idle")
    /\ UNCHANGED <<output_buf, buf_lock, rd_pc, rd_line, produced, appended, truncations,
                   bg_recent, started_with, stream, ops,
                   fsVars, agentVars, trimVars, supVars, cliVars, runVars>>

\* the try block of stop_background: terminate, wait, kill, wait
MainStopWait ==
    /\ main_pc.at = "stopping"
    /\ \E pid \in TRACKED, reaction \in Reactions :
         \E steps \in {Escalation(reaction)} :
            /\ signals' = [signals EXCEPT ![pid] = @ \cup Range(SignalsSent(steps))]
            /\ IF Last(steps).outcome = "exited"
               THEN /\ procs' = [procs EXCEPT ![pid] =
                                    IF Alive(procs, pid)
                                    THEN Exited(IF Len(SignalsSent(steps)) = 2
                                                THEN BY_SIGKILL ELSE BY_SIGTERM)
                                    ELSE @]
                    /\ main_pc' = MainAt("delete_wait")
               ELSE /\ procs' = procs
                    /\ main_pc' = MainAt("idle")
    /\ UNCHANGED <<output_buf, buf_lock, rd_pc, rd_line, produced, appended, truncations,
                   bg_recent, registry, started_with, stream, accesses, bg_lock, ops,
                   background_processes, sup_last,
                   fsVars, agentVars, trimVars, cliVars, runVars>>

\* with _bg_lock: del _background_processes[pid]
MainDelete ==
    /\ main_pc.at = "delete"
    /\ accesses' = accesses \cup {Access("main", "registry")}
    /\ registry' = registry \ TRACKED
    /\ bg_lock' = AfterWith(bg_lock)
    /\ main_pc' = MainAt("idle")
    /\ UNCHANGED <<output_buf, buf_lock, rd_pc, rd_line, produced, appended, truncations,
                   bg_recent, started_with, stream, ops,
                   fsVars, agentVars, trimVars, supVars, cliVars, runVars>>

\* with buf_lock: (entering the block)
MainAcquireBuffer ==
    /\ main_pc.at = "buffer_wait"
    /\ buf_lock = "free"
    /\ buf_lock' = "main"
    /\ main_pc' = MainAt("buffer")
    /\ UNCHANGED <<output_buf, rd_pc, rd_line, produced, appended, truncations,
                   bg_recent, registry, started_with, stream, accesses, bg_lock, ops,
                   fsVars, agentVars, trimVars, supVars, cliVars, runVars>>

\* the block under buf_lock: run_background joins the whole buffer,
\* check_background its last 50 lines; then the lock is released
MainBuffer ==
    /\ main_pc.at = "buffer"
    /\ accesses' = accesses \cup {Access("main", "buffer")}
    /\ bg_recent' = IF main_pc.tool = "run_background" THEN output_buf
                    ELSE Tail_n(output_buf, RECENT_LINES)
    /\ buf_lock' = "free"
    /\ main_pc' = MainAt("idle")
    /\ UNCHANGED <<output_buf, rd_pc, rd_line, produced, appended, truncations,
                   registry, started_with, stream, bg_lock, ops,
                   fsVars, agentVars, trimVars, supVars, cliVars, runVars>>

NextThreads ==
    \/ MainSpawn
    \/ MainBegin
    \/ MainWake
    \/ MainAcquireRegistry
    \/ MainRegistry
    \/ MainStopWait
    \/ MainDelete
    \/ MainAcquireBuffer
    \/ MainBuffer
    \/ ProcExit
    \/ \E t \in Readers : StreamClose(t)
    \/ \E t \in Readers : produced[t] < MaxOut /\ ReadLine(t)
    \/ \E t \in Readers : ReaderEof(t)
    \/ \E t \in Readers : ReaderRaises(t)
    \/ \E t \in Readers : ReaderAcquire(t)
    \/ \E t \in Readers : ReaderAppend(t)
    \/ \E t \in Readers : ReaderCheck(t)

\* the main thread and the readers of one process, from a session that has
\* started no process yet
SpecThreads == Init /\ [][NextThreads]_vars

\* the threads under the scheduling the program relies on: a thread that can
\* take its next step takes it, a thread waiting for a lock that comes free
\* again and again gets it, and the calls of the main thread return
FairThreads ==
    /\ SpecThreads
    /\ WF_vars(MainWake)
    /\ SF_vars(MainAcquireRegistry)
    /\ WF_vars(MainRegistry)
    /\ WF_vars(MainStopWait)
    /\ WF_vars(MainDelete)
    /\ SF_vars(MainAcquireBuffer)
    /\ WF_vars(MainBuffer)
    /\ \A t \in Readers :
         /\ WF_vars(ReaderEof(t))
         /\ SF_vars(ReaderAcquire(t))
         /\ WF_vars(ReaderAppend(t))
         /\ WF_vars(ReaderCheck(t))

\* the step at which a thread gives back the lock it holds
Releasing(thread) ==
    IF thread = "main" THEN main_pc.at \in {"registry", "delete", "buffer"}
    ELSE rd_pc[thread] \in {"append", "check"}

\* C29: every access to the registry is made under the registry lock and every
\* access to the buffer under the buffer lock; the registry lock is held
\* neither while the buffer lock is awaited or held, nor during the sleep of
\* run_background or the wait of stop_background; no thread waits for a lock
\* whose holder is not about to release it, so no deadlock is reachable
C29_LockDiscipline ==
    /\ \A a \in accesses :
          /\ a.obj = "registry" => a.reg_held
          /\ a.obj = "buffer" => a.buf_held /\ ~a.reg_held
    /\ bg_lock # "free"
          => /\ bg_lock = "main"
             /\ buf_lock # "main"
             /\ main_pc.at \in {"registry", "delete"}
    /\ main_pc.at \in {"registry_wait", "delete_wait"} => bg_lock = "free"
    /\ buf_lock # "free" => Releasing(buf_lock)
    /\ buf_lock = "main" => main_pc.at = "buffer"

\* check_background has read the registry and now reads the buffer under the
\* buffer lock, the registry lock released, while a reader waits to append
C29_Witness ==
    /\ main_pc = [tool |-> "check_background", at |-> "buffer"]
    /\ buf_lock = "main"
    /\ bg_lock = "free"
    /\ \E a \in accesses : a.thread = "main" /\ a.obj = "registry" /\ a.reg_held
    /\ \E t \in Readers : rd_pc[t] = "append_wait"

\* once the process has exited and both streams are closed, both readers
\* finish, and hold no lock then
ReadersFinishAfterClose ==
    ((\A pid \in TRACKED : procs[pid].state = "exited")
         /\ (\A t \in Readers : stream[t] = "closed"))
      ~> (\A t \in Readers : rd_pc[t] = "done" /\ buf_lock # t)

\* C30: a reader runs until its stream is closed and then ends by itself:
\* a reader that has ended has a closed stream; once the process has exited
\* and both streams are closed both readers end, holding no lock; and when
\* both have ended nothing more is appended to the buffer
C30_ReadersRunUntilClose ==
    /\ [](\A t \in Readers : rd_pc[t] = "done" => stream[t] = "closed")
    /\ ReadersFinishAfterClose
    /\ [][(\A t \in Readers : rd_pc[t] = "done")
            => (output_buf' = output_buf /\ appended' = appended)]_vars

(***************************************************************************)
(* The order of the lines of one stream in the buffer                      *)
(***************************************************************************)
\* the lines of stream t in the buffer, in buffer order, by their number in
\* the stream
StreamLines(buf, t) ==
    IF t = "stdout" THEN SelectSeq(buf, LAMBDA x : x > 0)
    ELSE [i \in 1..Len(SelectSeq(buf, LAMBDA x : x < 0)) |->
             0 - SelectSeq(buf, LAMBDA x : x < 0)[i]]

\* the lines are consecutive lines of a stream of n lines, in its order
ConsecutiveOf(lines, n) ==
    /\ \A i \in 1..Len(lines) : lines[i] \in 1..n
    /\ \A i \in 1..(Len(lines) - 1) : lines[i + 1] = lines[i] + 1

\* C31: in every state the buffer's lines of each stream, in buffer order,
\* are consecutive lines of what the process wrote to that stream, in the
\* order written: no line of one stream is reordered, repeated or missing in
\* between, whatever the interleaving of the two streams
C31_StreamOrderKept ==
    \A t \in Readers : ConsecutiveOf(StreamLines(output_buf, t), produced[t])

\* after a truncation the buffer has grown again and holds lines of both
\* streams, a stderr line before a stdout line
C31_Witness ==
    /\ truncations > 0
    /\ Len(output_buf) > BUF_KEEP
    /\ \E i, j \in 1..Len(output_buf) :
          i < j /\ output_buf[i] < 0 /\ output_buf[j] > 0
    /\ Len(StreamLines(output_buf, "stderr")) >= 2

\* the first 5 lines, the marker with the number of lines left out, and the
\* last 5 lines of a content
HeadMarkerTail(content) ==
    LET lines == SplitNl(content) IN
    JoinNl(SubSeq(lines, 1, 5) \o <<OmittedLine(Len(lines) - 10)>> \o Tail_n(lines, 5))

\* C32: a tool message older than the last 4 whose content is longer than
\* MAX_TOOL_RESULT_CHARS and has more than 10 lines is sent as its first 5
\* lines, the marker with the number of omitted lines (line count minus 10)
\* and its last 5 lines; one at or under the threshold is sent unchanged
C32_OldToolResultShape ==
    sent # <<>> =>
      \A i \in 1..(Len(history) - RECENT_KEPT) :
         history[i].role = "tool" =>
            /\ (Len(history[i].content) > MAX_TOOL_RESULT_CHARS
                   /\ Len(SplitNl(history[i].content)) > 10)
                 => sent[i + 1].content = HeadMarkerTail(history[i].content)
            /\ Len(history[i].content) <= MAX_TOOL_RESULT_CHARS
                 => sent[i + 1].content = history[i].content

S_path == <<"p", "a", "t", "h">>

\* the arguments sent for a stored write_file call are its summary: the file
\* content is not in them, the character count and the path are
SentAsSummary(stored_call, sent_call) ==
    LET p == JsonLoadsText(stored_call.function.arguments)
        content == Get(p.value, S_content)
        args == sent_call.function.arguments
    IN /\ sent_call.id = stored_call.id
       /\ p.ok =>
            /\ Len(content) > Len(CharsWritten(Len(content))) => OccurrencePositions(args, content) = {}
            /\ OccurrencePositions(args, CharsWritten(Len(content))) # {}
            /\ OccurrencePositions(args, Get(p.value, S_path)) # {}

\* the write_file calls of message i whose arguments are longer than
\* MAX_TOOL_ARGS_CHARS are sent as summaries
WritesSummarised(i) ==
    "tool_calls" \in DOMAIN history[i] =>
       \A k \in 1..Len(history[i].tool_calls) :
          (/\ history[i].tool_calls[k].function.name = "write_file"
           /\ Len(history[i].tool_calls[k].function.arguments) > MAX_TOOL_ARGS_CHARS
           /\ JsonLoadsText(history[i].tool_calls[k].function.arguments).ok)
          => SentAsSummary(history[i].tool_calls[k], sent[i + 1].tool_calls[k])

\* C33 as stated: no request carries the full content of a write_file call
\* with large arguments that the history holds, wherever the call stands
C33_WriteContentNeverResent ==
    sent # <<>> => \A i \in 1..Len(history) : WritesSummarised(i)

\* C33, amended: a request carries no full content of a write_file call with
\* large arguments once the call's message is older than the last 4 messages
\* of the history: its arguments are the summary with the character count,
\* path and call id kept
C33_OldWriteContentNotResent ==
    sent # <<>> => \A i \in 1..(Len(history) - RECENT_KEPT) : WritesSummarised(i)

\* a request has been built from a history whose first message, older than
\* the last 4, calls write_file with 201 characters of content
C33_Witness ==
    /\ sent # <<>>
    /\ Len(history) >= RECENT_KEPT + 1
    /\ history[1] = M_writes
    /\ sent[2].tool_calls[1].function.arguments
         # history[1].tool_calls[1].function.arguments
    /\ OccurrencePositions(sent[2].tool_calls[1].function.arguments, Chars(201, "h")) = {}

(***************************************************************************)
(* Responses that carry thinking content                                   *)
(***************************************************************************)

T_A == <<"A">>
T_B == <<"B">>
T_hi_spaced == <<" ">> \o T_hi \o <<"\n">>

\* the reasoning of a response, in the forms a provider delivers it
ThinkingContents == {T_A, T_B}

ThinkingBlock(thinking) == [type |-> T_thinking, thinking |-> thinking]
TextBlock(text) == [type |-> T_text, text |-> text]
RedactedBlock(data) == [type |-> T_redacted_thinking, data |-> data]

\* the content blocks that hold reasoning: plain, or encrypted by the provider
ThinkingTypes == {T_thinking, T_redacted_thinking}

ResponseContents ==
    {[py |-> "None"], [py |-> "str", value |-> T_hi_spaced],
     [py |-> "list", value |-> <<TextBlock(T_hi)>>]}
    \cup {[py |-> "list", value |-> <<ThinkingBlock(t), TextBlock(T_hi)>>] :
            t \in ThinkingContents}
    \cup {[py |-> "list", value |-> <<RedactedBlock(t), TextBlock(T_hi)>>] :
            t \in ThinkingContents}

ResponseCalls ==
    {<<>>, <<[id |-> 1, name |-> "read_file", arguments |-> Obj([path |-> P_x])]>>,
     <<[id |-> 1, name |-> "read_file", arguments |-> BadJson]>>}

\* the messages a response can carry: string content with or without
\* reasoning_content (<<>>: absent or empty), content blocks, or no content
Messages ==
    [content : ResponseContents, reasoning_content : {<<>>} \cup ThinkingContents,
     tool_calls : ResponseCalls]

\* run_agent: the response m is received; its text is extracted, the
\* assistant message stored, and the turn ends or the for loop starts
Received(m) ==
    /\ pc = "await"
    /\ serial + 1 + Len(m.tool_calls) < MaxHist
    /\ message' = m
    /\ history' = Append(history, StoredMsg(m))
    /\ IF m.tool_calls = <<>>
       THEN /\ final_content' = ExtractedText(m)
            /\ turn_end' = "final"
            /\ pc' = "idle"
            /\ tickers' = TickersAtExit(tickers)
            /\ UNCHANGED <<pending, next_tc>>
       ELSE /\ pending' = m.tool_calls
            /\ next_tc' = 1
            /\ pc' = "dispatch"
            /\ UNCHANGED <<final_content, turn_end, tickers>>
    /\ serial' = serial + 1
    /\ UNCHANGED <<requests, at_request, after_tools, trimmed, sent, fsVars, bgVars,
                   supVars, cliVars, view_mode>>

ResponseReceived == \E m \in Messages : Received(m)

NextThink ==
    \/ RunAgentStart
    \/ SendRequest
    \/ ApiError
    \/ ResponseReceived
    \/ Dispatch

\* the agent loop with responses of every shape
SpecThink == Init /\ [][NextThink]_vars

\* what a response holds besides its reasoning
WithoutThinking(content) ==
    IF content.py = "list"
    THEN [content EXCEPT !.value = SelectSeq(@, LAMBDA b : b.type \notin ThinkingTypes)]
    ELSE content

\* two responses equal in text and tool calls
SameTextAndCalls(m1, m2) ==
    /\ m1.tool_calls = m2.tool_calls
    /\ m1.content.py = m2.content.py
    /\ WithoutThinking(m1.content) = WithoutThinking(m2.content)

\* C34: when a response is stored, the history becomes what it would have
\* become for any response with the same text and tool calls, whatever the
\* reasoning of the two; every other step of the turn reads only the history
\* and the tool calls, so two such runs build identical histories
C34_ThinkingNotStored ==
    [][(pc = "await" /\ pc' # "await" /\ turn_end' # "api_error")
       => \A m2 \in Messages :
             SameTextAndCalls(message', m2) => history' = Append(history, StoredMsg(m2))]_vars

\* C34 for reasoning delivered as reasoning_content or as blocks of type
\* "thinking": the stored message does not depend on it
C34_PlainThinkingNotStored ==
    [][(pc = "await" /\ pc' # "await" /\ turn_end' # "api_error")
       => \A m2 \in Messages :
             (/\ message'.tool_calls = m2.tool_calls
              /\ message'.content.py = m2.content.py
              /\ message'.content.py = "list" =>
                    SelectSeq(message'.content.value, LAMBDA b : b.type # T_thinking)
                    = SelectSeq(m2.content.value, LAMBDA b : b.type # T_thinking)
              /\ message'.content.py = "str" => message'.content = m2.content)
             => history' = Append(history, StoredMsg(m2))]_vars

(***************************************************************************)
(* The _ticker thread beside the turn (agent.py, run_agent)                *)
(***************************************************************************)

\* how status_ctx.update(_build_status()) ends
UpdateOutcomes == {"updated", "raises"}

\* a slip: the exception of the display update ends the thread
UpdateEndsThread(outcome) == IF outcome = "raises" THEN "done" ELSE "wait"

\* try: status_ctx.update(...) except Exception: pass, then ticker_stop.wait
AfterUpdate(outcome) == "wait"

\* the i-th ticker thread is at position at
TickerAt(i, at) == i \in 1..Len(tickers) /\ tickers[i].at = at

\* while not ticker_stop.is_set(): the thread returns once the flag is set
TickerTest(i) ==
    /\ TickerAt(i, "test")
    /\ tickers' = [tickers EXCEPT ![i].at = IF tickers[i].stop THEN "done" ELSE "update"]
    /\ UNCHANGED <<fsVars, agentVars, bgVars, trimVars, supVars, cliVars, message, view_mode>>

\* the display update, which reads start_time, tool_count, the token counts
\* and current_phase; whatever it raises is passed over
TickerUpdate(i) ==
    /\ TickerAt(i, "update")
    /\ \E outcome \in UpdateOutcomes :
         tickers' = [tickers EXCEPT ![i].at = AfterUpdate(outcome),
                                    ![i].swallowed = @ \/ outcome = "raises"]
    /\ UNCHANGED <<fsVars, agentVars, bgVars, trimVars, supVars, cliVars, message, view_mode>>

\* ticker_stop.wait(1.0) returns: the second has passed or the flag is set
TickerWait(i) ==
    /\ TickerAt(i, "wait")
    /\ tickers' = [tickers EXCEPT ![i].at = "test"]
    /\ UNCHANGED <<fsVars, agentVars, bgVars, trimVars, supVars, cliVars, message, view_mode>>

SerialStart == 2

\* the ticker threads the session can start: one for each user message that
\* can still be appended and answered
TickerIds == 1..((MaxHist - SerialStart) \div 2)

\* the responses whose content is a string, without reasoning
StringMessages == {m \in Messages : m.content.py = "str" /\ m.reasoning_content = <<>>}

NextTicker ==
    \/ RunAgentStart
    \/ SendRequest
    \/ ApiError
    \/ \E m \in StringMessages : Received(m)
    \/ Dispatch
    \/ \E i \in TickerIds : TickerTest(i)
    \/ \E i \in TickerIds : TickerUpdate(i)
    \/ \E i \in TickerIds : TickerWait(i)

\* a session in normal view, in which every turn starts a ticker thread;
\* SerialStart messages were appended and /clear was entered
InitNormal ==
    /\ InitFs /\ InitAgent /\ InitNoProcess /\ InitNoSup /\ InitCli /\ InitRun
    /\ view_mode = "normal"
    /\ trimmed = [in |-> <<>>, out |-> <<>>]
    /\ serial = SerialStart
    /\ sent = <<>>

\* the agent loop with the ticker threads of its turns
SpecTicker == InitNormal /\ [][NextTicker]_vars

\* the threads are scheduled: a thread that can take a step takes it
FairTicker ==
    /\ SpecTicker
    /\ \A i \in TickerIds :
          WF_vars(TickerTest(i)) /\ WF_vars(TickerUpdate(i)) /\ WF_vars(TickerWait(i))

\* a step of a ticker thread
TickerStep ==
    /\ Len(tickers') = Len(tickers)
    /\ \E i \in 1..Len(tickers) : tickers'[i].at # tickers[i].at

\* the turn has been left: by its final answer, a failed request, or an
\* exception of the dispatch
TurnLeft == pc \in {"idle", "crashed"} /\ turn_end # "none"

\* C35: a step of a ticker thread leaves the history, the counters and the
\* position of the turn as they are; a thread ends only once its stop flag is
\* set, whatever its display updates raised; when the turn has been left, by
\* its final answer, a failed request or an exception of the dispatch, the
\* stop flag of its ticker is set; and a thread whose flag is set terminates
C35_TickerBesideTurn ==
    /\ [][TickerStep => UNCHANGED <<history, serial, requests, cumulative_tokens, pc,
                                    pending, next_tc, final_content, turn_end>>]_vars
    /\ [](\A i \in 1..Len(tickers) : tickers[i].at = "done" => tickers[i].stop)
    /\ [](TurnLeft => \A i \in 1..Len(tickers) : tickers[i].stop)
    /\ \A i \in TickerIds :
          (i \in 1..Len(tickers) /\ tickers[i].stop) ~> TickerAt(i, "done")

\* the dispatch raised, and the turn's ticker, which had passed over an
\* exception of its display update, has terminated
C35_Witness ==
    /\ pc = "crashed"
    /\ tickers # <<>>
    /\ Last(tickers).swallowed /\ Last(tickers).stop /\ Last(tickers).at = "done"

\* C36: a compaction whose summary request raised is completed all the same:
\* the history becomes the single system message holding the failure text,
\* compact_count is one more and cumulative_tokens is 0; nothing of the
\* conversation is kept
C36_FailedSummaryStillCompacts ==
    [][(compactions' # compactions /\ summarized' = "raised")
       => /\ history' = <<[role |-> "system",
                           content |-> <<"[Session summary from auto-compact #",
                                         ToString(compact_count + 1), "]\n",
                                         "(Summary failed: ", "e", ")">>]>>
          /\ compact_count' = compact_count + 1
          /\ cumulative_tokens' = 0]_vars

\* a turn was followed by a compaction, the first, whose summary request failed
C36_Witness ==
    /\ summarized = "raised"
    /\ serial >= 2
    /\ compact_count = 1 /\ cumulative_tokens = 0
    /\ Len(history) = 1
    /\ history[1].role = "system"
    /\ history[1].content[4] = "(Summary failed: "
====
